---- MODULE Spec2Model ----
(***************************************************************************)
(* sjtu::map of src/map.hpp (second definition, lines 533-1172): a         *)
(* red-black tree whose nodes are also threaded on a doubly linked list    *)
(* between two sentinel nodes.                                             *)
(*                                                                         *)
(* The heap is a function from node addresses to node records; `new` adds  *)
(* an address to its domain and `delete` removes it, so that following a   *)
(* dangling or null pointer is an evaluation error and not a silent read.  *)
(* Every member function is an operator from a store (the heap plus the    *)
(* members of *this) to a store, written statement by statement.           *)
(*                                                                         *)
(* The same heap and the same variables carry, further down, the leftist   *)
(* heap of src/priority_queue.hpp (SpecPQ, SpecPQDeep) and the deque of    *)
(* src/unnamed/part_000, a doubly linked list of buckets that are doubly   *)
(* linked lists of nodes (SpecDeque, SpecDequeBig).                        *)
(***************************************************************************)
EXTENDS Integers, Sequences, FiniteSets, TLC

VARIABLES
    heap,   \* address -> rbt_node (address -> leftist_node under SpecPQ,
            \* address -> node or bucket under SpecDeque)
    maps,   \* map object -> [head, tail, root, size] (queue -> [root, _size] under SpecPQ,
            \* deque -> [head, tail, __size] under SpecDeque)
    ref,    \* map object -> the reference dictionary (key -> value) of the calls made so far
            \* (queue -> the reference multiset, element -> count, under SpecPQ;
            \* deque -> the reference list under SpecDeque)
    ret     \* the last call and what it returned or threw

vars == <<heap, maps, ref, ret>>

(***************************************************************************)
(* Bounds of the explored workloads.                                       *)
(***************************************************************************)
MaxKey == 4        \* keys 1..MaxKey in Spec (every call of the interface, one map)
DeepMaxKey == 10   \* keys 1..DeepMaxKey in SpecDeep (one map, inserts and erases)
CloneMaxKey == 7   \* keys 1..CloneMaxKey in SpecClone (a map and its copies)
CopyMaxKey == 2    \* keys 1..CopyMaxKey in SpecCopy (two maps, all interleavings)
WalkMaxKey == 4    \* keys 1..WalkMaxKey in SpecWalk (a map, its copy and one iterator)
TestMaxKey == 6    \* keys 1..TestMaxKey in SpecTest (the loop of my_test.cpp)
FixMaxKey == 8     \* keys 1..FixMaxKey in SpecFix (one map, the calls of each operation recorded)
PqMaxNodes == 3    \* leftist nodes allocated at a time in SpecPQ (two queues, every call)
PqMaxValue == 3    \* elements 1..PqMaxValue in SpecPQ
PqDeepMaxNodes == 4   \* leftist nodes allocated at a time in SpecPQDeep (two queues)
PqDeepMaxValue == 2   \* elements 1..PqDeepMaxValue in SpecPQDeep
DqMaxSize == 3     \* elements of the deque in SpecDeque (every call, all interleavings)
DqFill == 40       \* elements pushed by the growth of SpecDequeBig
DqThin == 22       \* elements the thinning of SpecDequeBig may erase
DqStepFill == 24   \* elements pushed by the growth of SpecDequeStep
DqStride == 12     \* it + n and it - n for n in -DqStride..DqStride in SpecDequeStep

(***************************************************************************)
(* Program constants.                                                      *)
(***************************************************************************)
NIL == 0
LEFT == FALSE
RIGHT == TRUE
RED == "RED"
BLACK == "BLACK"
DefaultV == 0
Uninit == "uninit"      \* a field no constructor has written
NullValue == <<>>       \* value == nullptr (sentinels)

Maps == {1, 2}
Values == {DefaultV, DefaultV + 1}

\* comparing_function: std::less<K>
Compare(a, b) == a < b

\* value->first, value->second
first(value) == value[1]
second(value) == value[2]

(***************************************************************************)
(* Addresses.  The sentinels of map object m are allocated by its          *)
(* constructor; a node for key k of map m gets the address the allocator   *)
(* keeps for it when that is free and the lowest unused address above all  *)
(* others when it is not.                                                  *)
(***************************************************************************)
HeadOf(m) == 2 * m - 1
TailOf(m) == 2 * m

PreferredAddr(m, k) == 2 * Cardinality(Maps) + (k - 1) * Cardinality(Maps) + m

Max(S) == CHOOSE x \in S : \A y \in S : y <= x

NewAddr(h, m, k) ==
    IF PreferredAddr(m, k) \notin DOMAIN h THEN PreferredAddr(m, k)
    ELSE Max(DOMAIN h) + 1

\* rbt_node(): only value is initialised
SentinelNode ==
    [prev |-> Uninit, next |-> Uninit, father |-> Uninit, child |-> Uninit,
     which |-> Uninit, color |-> Uninit, value |-> NullValue]

\* delete n
Delete(h, n) == [x \in DOMAIN h \ {n} |-> h[x]]

(***************************************************************************)
(* The store an operation of map object m works on.                        *)
(* trace is no member of the map: it is the record of the calls of        *)
(* swap_node, rotate, insert_fix and erase_fix an operation makes, and of   *)
(* the places where it would follow a null pointer (a "fault", named by    *)
(* its source line, after which the rest of the statement is skipped).     *)
(***************************************************************************)
Store(h, mp, m) ==
    [heap |-> h, this |-> m, head |-> mp[m].head, tail |-> mp[m].tail,
     root |-> mp[m].root, size |-> mp[m].size, trace |-> <<>>]

\* an entry of the trace: f is the function, a, b and c what it was called with
Ev(f, a, b, c) == [f |-> f, a |-> a, b |-> b, c |-> c]

Log(st, e) == [st EXCEPT !.trace = Append(@, e)]

Fault(st, line) == Log(st, Ev("fault", line, 0, 0))

Side(which) == IF which THEN 1 ELSE 0

Object(st) == [head |-> st.head, tail |-> st.tail, root |-> st.root, size |-> st.size]

\* update_nearby without next->prev = this
update_nearby_no_prev(h, n) ==
    LET PrevNext(a) == [a EXCEPT ![a[n].prev].next = n]
        FatherChild(a) ==
            IF a[n].father # NIL
            THEN [a EXCEPT ![a[n].father].child[a[n].which] = n]
            ELSE a
        ChildFather(a, w) ==
            IF a[n].child[w] # NIL
            THEN [a EXCEPT ![a[n].child[w]].father = n, ![a[n].child[w]].which = w]
            ELSE a
    IN  ChildFather(ChildFather(FatherChild(PrevNext(h)), LEFT), RIGHT)

(***************************************************************************)
(* rbt_node::update_nearby.  Each local operator is one statement, applied *)
(* to the heap the statement before it left.                               *)
(***************************************************************************)
update_nearby(h, n) ==
    LET PrevNext(a) == [a EXCEPT ![a[n].prev].next = n]
        NextPrev(a) == [a EXCEPT ![a[n].next].prev = n]
        FatherChild(a) ==
            IF a[n].father # NIL
            THEN [a EXCEPT ![a[n].father].child[a[n].which] = n]
            ELSE a
        ChildFather(a, w) ==
            IF a[n].child[w] # NIL
            THEN [a EXCEPT ![a[n].child[w]].father = n, ![a[n].child[w]].which = w]
            ELSE a
    IN  ChildFather(ChildFather(FatherChild(NextPrev(PrevNext(h))), LEFT), RIGHT)

\* rbt_node(const value_type &, prev, next, father, left_child, right_child, which)
new_node(h, addr, value, prev, next, father, left_child, right_child, which) ==
    LET node == [prev |-> prev, next |-> next, father |-> father,
                 child |-> [w \in BOOLEAN |-> IF w = LEFT THEN left_child ELSE right_child],
                 which |-> which, color |-> RED, value |-> value]
    IN  update_nearby((addr :> node) @@ h, addr)

\* rbt_node::brother
brother(h, n) == h[h[n].father].child[~h[n].which]

\* map::link_node
link_node(h, a, b) == [[h EXCEPT ![a].next = b] EXCEPT ![b].prev = a]

\* n->color = c
SetColor(st, n, c) == [st EXCEPT !.heap[n].color = c]

(***************************************************************************)
(* map::rotate                                                             *)
(***************************************************************************)
\* rotate without if (root == x) root = y
rotate_keep_root(st, x, which) ==
    LET y == st.heap[x].child[~which]
        S1(h) == [h EXCEPT ![x].child[~which] = h[y].child[which]]
        S2(h) == [h EXCEPT ![y].father = h[x].father]
        S3(h) == [h EXCEPT ![y].which = h[x].which]
        S4(h) == [h EXCEPT ![x].father = y]
        S5(h) == [h EXCEPT ![x].which = which]
    IN  [st EXCEPT !.heap = update_nearby(update_nearby(S5(S4(S3(S2(S1(@))))), x), y)]

rotate(st, x, which) ==
    LET y == st.heap[x].child[~which]
        S1(h) == [h EXCEPT ![x].child[~which] = h[y].child[which]]
        S2(h) == [h EXCEPT ![y].father = h[x].father]
        S3(h) == [h EXCEPT ![y].which = h[x].which]
        S4(h) == [h EXCEPT ![x].father = y]
        S5(h) == [h EXCEPT ![x].which = which]
    IN  IF y = NIL THEN Fault(st, 691)
        ELSE [st EXCEPT !.trace = Append(@, Ev("rotate", x, y, Side(which))),
                        !.root = IF @ = x THEN y ELSE @,
                        !.heap = update_nearby(update_nearby(S5(S4(S3(S2(S1(@))))), x), y)]

(***************************************************************************)
(* map::swap_node: a and b exchange every link, colour and side; the       *)
(* values stay with their nodes.                                           *)
(***************************************************************************)
\* swap_node that exchanges the values as well
\* swap_node without lines 673-682, the links that point at the node itself
swap_node_no_self(st, a, b) ==
    LET Swap(h) ==
            [h EXCEPT ![a].prev = h[b].prev,     ![b].prev = h[a].prev,
                      ![a].next = h[b].next,     ![b].next = h[a].next,
                      ![a].father = h[b].father, ![b].father = h[a].father,
                      ![a].child = h[b].child,   ![b].child = h[a].child,
                      ![a].color = h[b].color,   ![b].color = h[a].color,
                      ![a].which = h[b].which,   ![b].which = h[a].which]
    IN  [st EXCEPT !.trace = Append(@, Ev("swap_node", a, b, 0)),
                   !.root = IF @ = a THEN b ELSE IF @ = b THEN a ELSE @,
                   !.heap = update_nearby(update_nearby(Swap(@), a), b)]

swap_node_with_value(st, a, b) ==
    LET Swap(h) ==
            [h EXCEPT ![a].prev = h[b].prev,     ![b].prev = h[a].prev,
                      ![a].next = h[b].next,     ![b].next = h[a].next,
                      ![a].father = h[b].father, ![b].father = h[a].father,
                      ![a].child = h[b].child,   ![b].child = h[a].child,
                      ![a].color = h[b].color,   ![b].color = h[a].color,
                      ![a].which = h[b].which,   ![b].which = h[a].which,
                      ![a].value = h[b].value,   ![b].value = h[a].value]
        Self(h, x, o) ==
            [h EXCEPT ![x].prev = IF @ = x THEN o ELSE @,
                      ![x].next = IF @ = x THEN o ELSE @,
                      ![x].father = IF @ = x THEN o ELSE @,
                      ![x].child[LEFT] = IF @ = x THEN o ELSE @,
                      ![x].child[RIGHT] = IF @ = x THEN o ELSE @]
    IN  [st EXCEPT !.root = IF @ = a THEN b ELSE IF @ = b THEN a ELSE @,
                   !.heap = update_nearby(update_nearby(Self(Self(Swap(@), a, b), b, a), a), b)]

swap_node(st, a, b) ==
    LET Swap(h) ==
            [h EXCEPT ![a].prev = h[b].prev,     ![b].prev = h[a].prev,
                      ![a].next = h[b].next,     ![b].next = h[a].next,
                      ![a].father = h[b].father, ![b].father = h[a].father,
                      ![a].child = h[b].child,   ![b].child = h[a].child,
                      ![a].color = h[b].color,   ![b].color = h[a].color,
                      ![a].which = h[b].which,   ![b].which = h[a].which]
        \* a link of x that points at x itself after the exchange pointed at o before
        Self(h, x, o) ==
            [h EXCEPT ![x].prev = IF @ = x THEN o ELSE @,
                      ![x].next = IF @ = x THEN o ELSE @,
                      ![x].father = IF @ = x THEN o ELSE @,
                      ![x].child[LEFT] = IF @ = x THEN o ELSE @,
                      ![x].child[RIGHT] = IF @ = x THEN o ELSE @]
    IN  [st EXCEPT !.trace = Append(@, Ev("swap_node", a, b, 0)),
                   !.root = IF @ = a THEN b ELSE IF @ = b THEN a ELSE @,
                   !.heap = update_nearby(update_nearby(Self(Self(Swap(@), a, b), b, a), a), b)]

(***************************************************************************)
(* map::insert_fix                                                         *)
(***************************************************************************)
RECURSIVE insert_fix(_, _)

\* insert_fix whose same-side case leaves father RED
insert_fix_no_recolor(st, target) ==
    LET h == st.heap
        father == h[target].father
        grandpa == h[father].father
        uncle == brother(h, father)
        RotateAway(s, x) == rotate(s, x, ~s.heap[target].which)
    IN  IF father = NIL THEN SetColor(st, target, BLACK)
        ELSE IF h[father].color = BLACK THEN st
        ELSE IF uncle = NIL \/ h[uncle].color = BLACK
        THEN IF h[target].which = h[father].which
             THEN RotateAway(SetColor(st, grandpa, RED), grandpa)
             ELSE RotateAway(
                      RotateAway(SetColor(SetColor(st, target, BLACK), grandpa, RED), father),
                      grandpa)
        ELSE insert_fix(
                 SetColor(SetColor(SetColor(st, father, BLACK), uncle, BLACK), grandpa, RED),
                 grandpa)

\* insert_fix that returns from a node without father before colouring it BLACK
insert_fix_red_root(st, target) ==
    LET h == st.heap
        father == h[target].father
        grandpa == h[father].father
        uncle == brother(h, father)
        RotateAway(s, x) == rotate(s, x, ~s.heap[target].which)
    IN  IF father = NIL THEN st
        ELSE IF h[father].color = BLACK THEN st
        ELSE IF uncle = NIL \/ h[uncle].color = BLACK
        THEN IF h[target].which = h[father].which
             THEN RotateAway(SetColor(SetColor(st, father, BLACK), grandpa, RED), grandpa)
             ELSE RotateAway(
                      RotateAway(SetColor(SetColor(st, target, BLACK), grandpa, RED), father),
                      grandpa)
        ELSE insert_fix(
                 SetColor(SetColor(SetColor(st, father, BLACK), uncle, BLACK), grandpa, RED),
                 grandpa)

\* insert_fix that goes on at the father once the same-side rotation is done
insert_fix_refix(st0, target) ==
    LET father == st0.heap[target].father
        grandpa == st0.heap[father].father
        uncle == brother(st0.heap, father)
        RotateAway(s, x) == rotate(s, x, ~s.heap[target].which)
        Called(st) ==
            IF father = NIL THEN SetColor(st, target, BLACK)
            ELSE IF st.heap[father].color = BLACK THEN st
            ELSE IF grandpa = NIL THEN Fault(st, 709)
            ELSE IF uncle = NIL \/ st.heap[uncle].color = BLACK
            THEN IF st.heap[target].which = st.heap[father].which
                 THEN insert_fix(
                          RotateAway(SetColor(SetColor(st, father, BLACK), grandpa, RED),
                                     grandpa),
                          father)
                 ELSE RotateAway(
                          RotateAway(SetColor(SetColor(st, target, BLACK), grandpa, RED), father),
                          grandpa)
            ELSE insert_fix(
                     SetColor(SetColor(SetColor(st, father, BLACK), uncle, BLACK), grandpa, RED),
                     grandpa)
    IN  Called(Log(st0, Ev("insert_fix", target, father,
                           IF father = NIL THEN NIL ELSE grandpa)))

\* insert_fix whose RED-uncle case goes on at the father, one level up
insert_fix_one_level(st0, target) ==
    LET father == st0.heap[target].father
        grandpa == st0.heap[father].father
        uncle == brother(st0.heap, father)
        RotateAway(s, x) == rotate(s, x, ~s.heap[target].which)
        Called(st) ==
            IF father = NIL THEN SetColor(st, target, BLACK)
            ELSE IF st.heap[father].color = BLACK THEN st
            ELSE IF grandpa = NIL THEN Fault(st, 709)
            ELSE IF uncle = NIL \/ st.heap[uncle].color = BLACK
            THEN IF st.heap[target].which = st.heap[father].which
                 THEN RotateAway(SetColor(SetColor(st, father, BLACK), grandpa, RED), grandpa)
                 ELSE RotateAway(
                          RotateAway(SetColor(SetColor(st, target, BLACK), grandpa, RED), father),
                          grandpa)
            ELSE insert_fix(
                     SetColor(SetColor(SetColor(st, father, BLACK), uncle, BLACK), grandpa, RED),
                     father)
    IN  Called(Log(st0, Ev("insert_fix", target, father,
                           IF father = NIL THEN NIL ELSE grandpa)))

insert_fix(st0, target) ==
    LET father == st0.heap[target].father
        grandpa == st0.heap[father].father
        uncle == brother(st0.heap, father)
        \* rotate(x, !(target->which)), target->which read when the call is made
        RotateAway(s, x) == rotate(s, x, ~s.heap[target].which)
        Called(st) ==
            IF father = NIL THEN SetColor(st, target, BLACK)
            ELSE IF st.heap[father].color = BLACK THEN st
            ELSE IF grandpa = NIL THEN Fault(st, 709)
            ELSE IF uncle = NIL \/ st.heap[uncle].color = BLACK
            THEN IF st.heap[target].which = st.heap[father].which
                 THEN RotateAway(SetColor(SetColor(st, father, BLACK), grandpa, RED), grandpa)
                 ELSE RotateAway(
                          RotateAway(SetColor(SetColor(st, target, BLACK), grandpa, RED), father),
                          grandpa)
            ELSE insert_fix(
                     SetColor(SetColor(SetColor(st, father, BLACK), uncle, BLACK), grandpa, RED),
                     grandpa)
    IN  Called(Log(st0, Ev("insert_fix", target, father,
                           IF father = NIL THEN NIL ELSE grandpa)))

(***************************************************************************)
(* map::__insert: the descent loop, then the new leaf and its fix-up.      *)
(***************************************************************************)
\* the descent with the two arguments of the first comparison exchanged
RECURSIVE insert_descend_flipped(_, _, _)
insert_descend_flipped(h, cur_node, key) ==
    LET which == Compare(key, first(h[cur_node].value))
    IN  IF ~which /\ ~Compare(first(h[cur_node].value), key)
        THEN [found |-> TRUE, cur_node |-> cur_node, which |-> which]
        ELSE IF h[cur_node].child[which] = NIL
        THEN [found |-> FALSE, cur_node |-> cur_node, which |-> which]
        ELSE insert_descend_flipped(h, h[cur_node].child[which], key)

\* the descent without the test for an equivalent key
RECURSIVE insert_descend_no_match(_, _, _)
insert_descend_no_match(h, cur_node, key) ==
    LET which == Compare(first(h[cur_node].value), key)
    IN  IF h[cur_node].child[which] = NIL
        THEN [found |-> FALSE, cur_node |-> cur_node, which |-> which]
        ELSE insert_descend_no_match(h, h[cur_node].child[which], key)

RECURSIVE insert_descend(_, _, _)
insert_descend(h, cur_node, key) ==
    LET which == Compare(first(h[cur_node].value), key)
    IN  IF ~which /\ ~Compare(key, first(h[cur_node].value))
        THEN [found |-> TRUE, cur_node |-> cur_node, which |-> which]
        ELSE IF h[cur_node].child[which] = NIL
        THEN [found |-> FALSE, cur_node |-> cur_node, which |-> which]
        ELSE insert_descend(h, h[cur_node].child[which], key)

\* __insert that allocates its node before the search and leaves it behind
\* when the key is found
__insert_alloc_first(st, key, value) ==
    LET h == st.heap
        new == NewAddr(h, st.this, key)
        d == insert_descend(h, st.root, key)
        cur_node == d.cur_node
        Grown(heap1, root1) == [st EXCEPT !.heap = heap1, !.root = root1, !.size = @ + 1]
        Spare == [prev |-> NIL, next |-> NIL, father |-> NIL,
                  child |-> [w \in BOOLEAN |-> NIL],
                  which |-> LEFT, color |-> RED, value |-> value]
    IN  IF st.root = NIL
        THEN [st |-> insert_fix(
                         Grown(new_node(h, new, value, st.head, st.tail, NIL, NIL, NIL, LEFT),
                               new),
                         new),
              node |-> new, inserted |-> TRUE]
        ELSE IF d.found
        THEN [st |-> [st EXCEPT !.heap = (new :> Spare) @@ h],
              node |-> cur_node, inserted |-> FALSE]
        ELSE [st |-> insert_fix(
                         Grown(new_node(h, new, value,
                                        IF d.which THEN cur_node ELSE h[cur_node].prev,
                                        IF d.which THEN h[cur_node].next ELSE cur_node,
                                        cur_node, NIL, NIL, d.which),
                               st.root),
                         new),
              node |-> new, inserted |-> TRUE]

\* __insert that links every new leaf before its parent, whichever child it is
__insert_always_before(st, key, value) ==
    LET h == st.heap
        new == NewAddr(h, st.this, key)
        d == insert_descend(h, st.root, key)
        cur_node == d.cur_node
        Grown(heap1, root1) == [st EXCEPT !.heap = heap1, !.root = root1, !.size = @ + 1]
    IN  IF st.root = NIL
        THEN [st |-> insert_fix(
                         Grown(new_node(h, new, value, st.head, st.tail, NIL, NIL, NIL, LEFT),
                               new),
                         new),
              node |-> new, inserted |-> TRUE]
        ELSE IF d.found THEN [st |-> st, node |-> cur_node, inserted |-> FALSE]
        ELSE [st |-> insert_fix(
                         Grown(new_node(h, new, value, h[cur_node].prev, cur_node,
                                        cur_node, NIL, NIL, d.which),
                               st.root),
                         new),
              node |-> new, inserted |-> TRUE]

__insert(st, key, value) ==
    LET h == st.heap
        new == NewAddr(h, st.this, key)
        d == insert_descend(h, st.root, key)
        cur_node == d.cur_node
        Grown(heap1, root1) == [st EXCEPT !.heap = heap1, !.root = root1, !.size = @ + 1]
    IN  IF st.root = NIL
        THEN [st |-> insert_fix(
                         Grown(new_node(h, new, value, st.head, st.tail, NIL, NIL, NIL, LEFT),
                               new),
                         new),
              node |-> new, inserted |-> TRUE]
        ELSE IF d.found THEN [st |-> st, node |-> cur_node, inserted |-> FALSE]
        ELSE [st |-> insert_fix(
                         Grown(new_node(h, new, value,
                                        IF d.which THEN cur_node ELSE h[cur_node].prev,
                                        IF d.which THEN h[cur_node].next ELSE cur_node,
                                        cur_node, NIL, NIL, d.which),
                               st.root),
                         new),
              node |-> new, inserted |-> TRUE]

\* __insert(const value_type &value)
insert_value(st, value) == __insert(st, first(value), value)

\* __insert(const K &key) that stores (key, V()) in the node it finds as well
insert_key_overwrite(st, key) ==
    LET Result(r) ==
            [st |-> [r.st EXCEPT !.heap[r.node].value = <<key, DefaultV>>], node |-> r.node]
    IN  Result(__insert(st, key, <<key, DefaultV>>))

\* __insert(const K &key): the node constructor for a key stores (key, V())
insert_key(st, key) ==
    LET Result(r) == [st |-> r.st, node |-> r.node]
    IN  Result(__insert(st, key, <<key, DefaultV>>))

(***************************************************************************)
(* map::erase_fix.  cousin points at the child array of the current        *)
(* brother, so cousin[w] is read from the heap at the time of the read.    *)
(***************************************************************************)
NullOrBlack(h, n) == n = NIL \/ h[n].color = BLACK

BlackCousins(h, b) == NullOrBlack(h, h[b].child[LEFT]) /\ NullOrBlack(h, h[b].child[RIGHT])

\* lines 750-756: a RED brother is rotated above father
erase_fix_red_brother(st, target, father) ==
    IF st.heap[brother(st.heap, target)].color = RED
    THEN rotate(SetColor(SetColor(st, father, RED), brother(st.heap, target), BLACK),
                father, st.heap[target].which)
    ELSE st

\* lines 764-771: a BLACK or absent far nephew: the near nephew is rotated outwards
\* the near-nephew step without the test of line 763
erase_fix_near_always(st, target) ==
    LET h == st.heap
        b == brother(h, target)
        near == h[b].child[h[target].which]
    IN  IF near = NIL THEN Fault(st, 765)
        ELSE rotate(SetColor(SetColor(Log(st, Ev("near", near, Side(h[near].color = RED), 0)),
                                      near, BLACK),
                             b, RED),
                    b, ~h[target].which)

erase_fix_near(st, target) ==
    LET h == st.heap
        b == brother(h, target)
        near == h[b].child[h[target].which]
    IN  IF NullOrBlack(h, h[b].child[~h[target].which])
        THEN IF near = NIL THEN Fault(st, 765)
             ELSE rotate(SetColor(SetColor(Log(st, Ev("near", near, Side(h[near].color = RED), 0)),
                                           near, BLACK),
                                  b, RED),
                         b, ~h[target].which)
        ELSE st

\* lines 772-774 without cousin[!(target->which)]->color = BLACK
erase_fix_far_no_blacken(st, target, father) ==
    LET h == st.heap
        b == brother(h, target)
        SwapColor(s) == SetColor(SetColor(s, father, h[b].color), b, h[father].color)
    IN  rotate(SwapColor(st), father, h[target].which)

\* lines 772-774: father and brother exchange colours, the far nephew turns BLACK
erase_fix_far(st, target, father) ==
    LET h == st.heap
        b == brother(h, target)
        SwapColor(s) == SetColor(SetColor(s, father, h[b].color), b, h[father].color)
        Blacken(s) == SetColor(s, s.heap[b].child[~s.heap[target].which], BLACK)
    IN  IF b = NIL THEN Fault(st, 771)
        ELSE IF h[b].child[~h[target].which] = NIL THEN Fault(SwapColor(st), 772)
        ELSE rotate(Blacken(SwapColor(st)), father, h[target].which)

RECURSIVE erase_fix(_, _, _)
erase_fix(st0, target, recursive) ==
    LET h == st0.heap
        child == h[target].child[h[target].child[LEFT] = NIL]
        father == h[target].father
        b0 == brother(h, target)
        \* lines 756-773, on the store the RED-brother step left
        Rest(s) ==
            IF brother(s.heap, target) = NIL THEN Fault(s, 756)
            ELSE IF /\ s.heap[father].color = RED
                    /\ s.heap[brother(s.heap, target)].color = BLACK
                    /\ BlackCousins(s.heap, brother(s.heap, target))
            THEN SetColor(SetColor(s, father, BLACK), brother(s.heap, target), RED)
            ELSE erase_fix_far(erase_fix_near(s, target), target, father)
        Called(st) ==
            IF h[target].color = RED /\ ~recursive THEN st
            ELSE IF child # NIL /\ h[child].color = RED /\ ~recursive
            THEN SetColor(st, child, BLACK)
            ELSE IF st.root = target THEN SetColor(st, target, BLACK)
            ELSE IF father = NIL THEN Fault(st, 741)
            ELSE IF b0 = NIL THEN Fault(st, 743)
            ELSE IF h[father].color = BLACK /\ h[b0].color = BLACK /\ BlackCousins(h, b0)
            THEN erase_fix(SetColor(st, b0, RED), father, TRUE)
            ELSE Rest(erase_fix_red_brother(st, target, father))
    IN  Called(Log(st0, Ev("erase_fix", target, father, Side(recursive))))

(***************************************************************************)
(* map::erase of a node                                                    *)
(***************************************************************************)
\* erase that exchanges the two nodes and then their values, so that the
\* successor's node is the one freed as far as key and value go
\* erase without lines 822-825: the child keeps the father and side it had
erase_no_adopt(st, target) ==
    LET Dec(s) == [s EXCEPT !.size = @ - 1]
        Swap(s) ==
            IF s.heap[target].child[LEFT] # NIL /\ s.heap[target].child[RIGHT] # NIL
            THEN swap_node(s, target, s.heap[target].next)
            ELSE s
        Fix(s) == erase_fix(s, target, FALSE)
        Unlink(s) ==
            [s EXCEPT !.heap = link_node(@, @[target].prev, @[target].next)]
        Child(s) == s.heap[target].child[s.heap[target].child[LEFT] = NIL]
        Detach(s) ==
            IF target = s.root THEN [s EXCEPT !.root = Child(s)]
            ELSE [s EXCEPT !.heap[s.heap[target].father].child[s.heap[target].which] = Child(s)]
        Free(s) == [s EXCEPT !.heap = Delete(@, target)]
    IN  Free(Detach(Unlink(Fix(Swap(Dec(st))))))

erase_swap_values(st, target) ==
    LET Dec(s) == [s EXCEPT !.size = @ - 1]
        Values2(s, a, b) ==
            [s EXCEPT !.heap[a].value = st.heap[b].value,
                      !.heap[b].value = st.heap[a].value]
        Swap(s) ==
            IF s.heap[target].child[LEFT] # NIL /\ s.heap[target].child[RIGHT] # NIL
            THEN Values2(swap_node(s, target, s.heap[target].next), target, s.heap[target].next)
            ELSE s
        Fix(s) == erase_fix(s, target, FALSE)
        Unlink(s) ==
            [s EXCEPT !.heap = link_node(@, @[target].prev, @[target].next)]
        Child(s) == s.heap[target].child[s.heap[target].child[LEFT] = NIL]
        Detach(s) ==
            IF target = s.root THEN [s EXCEPT !.root = Child(s)]
            ELSE [s EXCEPT !.heap[s.heap[target].father].child[s.heap[target].which] = Child(s)]
        Adopt(s) ==
            IF Child(s) # NIL
            THEN [s EXCEPT !.heap[Child(s)].father = s.heap[target].father,
                           !.heap[Child(s)].which = s.heap[target].which]
            ELSE s
        Free(s) == [s EXCEPT !.heap = Delete(@, target)]
    IN  Free(Adopt(Detach(Unlink(Fix(Swap(Dec(st)))))))

erase(st, target) ==
    LET Dec(s) == [s EXCEPT !.size = @ - 1]
        Swap(s) ==
            IF s.heap[target].child[LEFT] # NIL /\ s.heap[target].child[RIGHT] # NIL
            THEN swap_node(s, target, s.heap[target].next)
            ELSE s
        Fix(s) == erase_fix(s, target, FALSE)
        Unlink(s) ==
            [s EXCEPT !.heap = link_node(@, @[target].prev, @[target].next)]
        Child(s) == s.heap[target].child[s.heap[target].child[LEFT] = NIL]
        Detach(s) ==
            IF target = s.root THEN [s EXCEPT !.root = Child(s)]
            ELSE [s EXCEPT !.heap[s.heap[target].father].child[s.heap[target].which] = Child(s)]
        Adopt(s) ==
            IF Child(s) # NIL
            THEN [s EXCEPT !.heap[Child(s)].father = s.heap[target].father,
                           !.heap[Child(s)].which = s.heap[target].which]
            ELSE s
        Free(s) == [s EXCEPT !.heap = Delete(@, target)]
    IN  Free(Adopt(Detach(Unlink(Fix(Swap(Dec(st)))))))

(***************************************************************************)
(* map::find, map::count, map::at.  A position is [map, node]; end() is    *)
(* the position of tail.                                                   *)
(***************************************************************************)
iterator(m, node) == [map |-> m, node |-> node]

end(st) == iterator(st.this, st.tail)

begin(st) == iterator(st.this, st.heap[st.head].next)

\* the search loop with the two child sides exchanged
RECURSIVE find_loop_flipped(_, _, _)
find_loop_flipped(h, cur, key) ==
    IF cur = NIL THEN NIL
    ELSE IF Compare(key, first(h[cur].value)) THEN find_loop_flipped(h, h[cur].child[RIGHT], key)
    ELSE IF Compare(first(h[cur].value), key) THEN find_loop_flipped(h, h[cur].child[LEFT], key)
    ELSE cur

RECURSIVE find_loop(_, _, _)
find_loop(h, cur, key) ==
    IF cur = NIL THEN NIL
    ELSE IF Compare(key, first(h[cur].value)) THEN find_loop(h, h[cur].child[LEFT], key)
    ELSE IF Compare(first(h[cur].value), key) THEN find_loop(h, h[cur].child[RIGHT], key)
    ELSE cur

find(st, key) ==
    LET Found(cur) == IF cur # NIL THEN iterator(st.this, cur) ELSE end(st)
    IN  Found(find_loop(st.heap, st.root, key))

\* iterator::operator==
IterEq(a, b) == a.node = b.node

count(st, key) == IF IterEq(find(st, key), end(st)) THEN 0 ELSE 1

\* at without the check against end(): an absent key reads as V()
at_unchecked(st, key) ==
    LET Deref(it) ==
            IF IterEq(it, end(st)) THEN [err |-> "none", out |-> DefaultV]
            ELSE [err |-> "none", out |-> second(st.heap[it.node].value)]
    IN  Deref(find(st, key))

\* map::at: the value, or index_out_of_bound
at(st, key) ==
    LET Deref(it) ==
            IF IterEq(it, end(st)) THEN [err |-> "index_out_of_bound", out |-> DefaultV]
            ELSE [err |-> "none", out |-> second(st.heap[it.node].value)]
    IN  Deref(find(st, key))

\* map::size, map::empty
size(st) == st.size

empty(st) == st.size = 0

(***************************************************************************)
(* map::insert, map::operator[] and map::erase(iterator)                   *)
(***************************************************************************)
insert(st, value) ==
    LET Result(result) ==
            [st |-> result.st, first |-> iterator(st.this, result.node),
             second |-> result.inserted]
    IN  Result(insert_value(st, value))

\* operator[] returns a reference to value->second of the node __insert(key) returns
subscript(st, key) == insert_key(st, key)

\* the assignment through the reference operator[] returned
assign(st, node, v) == [st EXCEPT !.heap[node].value[2] = v]

\* erase(iterator) that removes the entry after the one at pos when there is one
erase_iterator_next(st, pos) ==
    IF pos.map # st.this \/ IterEq(pos, end(st))
    THEN [st |-> st, err |-> "invalid_iterator"]
    ELSE IF st.heap[pos.node].next # st.tail
    THEN [st |-> erase(st, st.heap[pos.node].next), err |-> "none"]
    ELSE [st |-> erase(st, pos.node), err |-> "none"]

\* erase(iterator) that decrements __size before it checks pos
erase_iterator_late_check(st, pos) ==
    IF pos.map # st.this \/ IterEq(pos, end(st))
    THEN [st |-> [st EXCEPT !.size = @ - 1], err |-> "invalid_iterator"]
    ELSE [st |-> erase(st, pos.node), err |-> "none"]

erase_iterator(st, pos) ==
    IF pos.map # st.this \/ IterEq(pos, end(st))
    THEN [st |-> st, err |-> "invalid_iterator"]
    ELSE [st |-> erase(st, pos.node), err |-> "none"]

(***************************************************************************)
(* iterator and const_iterator.  An iterator reads its own map through     *)
(* __map: mp is the function from map objects to their members.  Each      *)
(* operator yields the iterator it leaves behind (it) and the error it     *)
(* raises (err); operator-> and operator* yield the value read (out).      *)
(***************************************************************************)
\* a function declared noexcept: an exception that leaves it ends the program
Noexcept(r) == IF r.err # "none" THEN [r EXCEPT !.err = "terminate"] ELSE r

pre_increment(h, mp, it) ==
    IF it.node = NIL \/ it.node = mp[it.map].tail
    THEN [it |-> it, err |-> "invalid_iterator"]
    ELSE [it |-> iterator(it.map, h[it.node].next), err |-> "none"]

\* it++ that returns the backup without moving the iterator
post_increment_stay(h, mp, it) ==
    LET Backup(r) == [it |-> it, err |-> r.err]
    IN  Backup(pre_increment(h, mp, it))

\* iterator backup(*this); operator++(); return backup;
post_increment(h, mp, it) ==
    LET Backup(r) == [it |-> r.it, err |-> r.err]
    IN  Backup(pre_increment(h, mp, it))

pre_decrement(h, mp, it) ==
    IF it.node = NIL \/ it.node = h[mp[it.map].head].next
    THEN [it |-> it, err |-> "invalid_iterator"]
    ELSE [it |-> iterator(it.map, h[it.node].prev), err |-> "none"]

post_decrement(h, mp, it) ==
    LET Backup(r) == [it |-> r.it, err |-> r.err]
    IN  Backup(pre_decrement(h, mp, it))

const_pre_increment(h, mp, it) ==
    IF it.node = NIL \/ it.node = mp[it.map].tail
    THEN [it |-> it, err |-> "invalid_iterator"]
    ELSE [it |-> iterator(it.map, h[it.node].next), err |-> "none"]

const_post_increment(h, mp, it) ==
    LET Backup(r) == [it |-> r.it, err |-> r.err]
    IN  Backup(const_pre_increment(h, mp, it))

\* --it that compares with head instead of head->next
const_pre_decrement_head(h, mp, it) ==
    IF it.node = NIL \/ it.node = mp[it.map].head
    THEN [it |-> it, err |-> "invalid_iterator"]
    ELSE [it |-> iterator(it.map, h[it.node].prev), err |-> "none"]

const_pre_decrement(h, mp, it) ==
    IF it.node = NIL \/ it.node = h[mp[it.map].head].next
    THEN [it |-> it, err |-> "invalid_iterator"]
    ELSE [it |-> iterator(it.map, h[it.node].prev), err |-> "none"]

const_post_decrement(h, mp, it) ==
    LET Backup(r) == [it |-> r.it, err |-> r.err]
    IN  Backup(const_pre_decrement(h, mp, it))

\* pointer operator->() const noexcept
arrow(h, mp, it) ==
    Noexcept(IF it.node = NIL \/ it.node = mp[it.map].tail
             THEN [it |-> it, err |-> "invalid_iterator", out |-> DefaultV]
             ELSE [it |-> it, err |-> "none", out |-> second(h[it.node].value)])

\* reference operator*() const { return *operator->(); }
star(h, mp, it) == arrow(h, mp, it)

const_arrow(h, mp, it) ==
    Noexcept(IF it.node = NIL \/ it.node = mp[it.map].tail
             THEN [it |-> it, err |-> "invalid_iterator", out |-> DefaultV]
             ELSE [it |-> it, err |-> "none", out |-> second(h[it.node].value)])

const_star(h, mp, it) == const_arrow(h, mp, it)

(***************************************************************************)
(* map::clear                                                              *)
(***************************************************************************)
RECURSIVE clear_loop(_, _, _)
clear_loop(h, cur, tail) ==
    IF cur = tail THEN h
    ELSE clear_loop(Delete(h, cur), h[cur].next, tail)

\* clear that frees the nodes but leaves root as it was
clear_keep_root(st) ==
    LET Relink(h) == [[h EXCEPT ![st.head].next = st.tail] EXCEPT ![st.tail].prev = st.head]
    IN  [st EXCEPT !.size = 0,
                   !.heap = Relink(clear_loop(@, @[st.head].next, st.tail))]

\* clear without __size = 0
clear_keep_size(st) ==
    LET Relink(h) == [[h EXCEPT ![st.head].next = st.tail] EXCEPT ![st.tail].prev = st.head]
    IN  [st EXCEPT !.heap = Relink(clear_loop(@, @[st.head].next, st.tail)),
                   !.root = NIL]

clear(st) ==
    LET Relink(h) == [[h EXCEPT ![st.head].next = st.tail] EXCEPT ![st.tail].prev = st.head]
    IN  [st EXCEPT !.size = 0,
                   !.heap = Relink(clear_loop(@, @[st.head].next, st.tail)),
                   !.root = NIL]

(***************************************************************************)
(* rbt_node(rbt_node *other, father, prev, next): clones the subtree of    *)
(* other into the list between prev and next.  m is the map the clone is   *)
(* allocated for.                                                          *)
(***************************************************************************)
\* the clone constructor without the clone of the right subtree
RECURSIVE rbt_clone(_, _, _, _, _, _)
rbt_clone_left_only(h, m, other, father, prev, next) ==
    LET this == NewAddr(h, m, first(h[other].value))
        node == [prev |-> prev, next |-> next, father |-> father,
                 child |-> [w \in BOOLEAN |-> NIL],
                 which |-> h[other].which, color |-> h[other].color,
                 value |-> h[other].value]
        Link(a) == [[a EXCEPT ![next].prev = this] EXCEPT ![prev].next = this]
        Attach(c, w) == [c.heap EXCEPT ![this].child[w] = c.node]
        Left(a) ==
            IF a[other].child[LEFT] # NIL
            THEN Attach(rbt_clone(a, m, a[other].child[LEFT], this, prev, this), LEFT)
            ELSE a
    IN  [heap |-> Left(Link((this :> node) @@ h)), node |-> this]

rbt_clone(h, m, other, father, prev, next) ==
    LET this == NewAddr(h, m, first(h[other].value))
        node == [prev |-> prev, next |-> next, father |-> father,
                 child |-> [w \in BOOLEAN |-> NIL],
                 which |-> h[other].which, color |-> h[other].color,
                 value |-> h[other].value]
        Link(a) == [[a EXCEPT ![next].prev = this] EXCEPT ![prev].next = this]
        Attach(c, w) == [c.heap EXCEPT ![this].child[w] = c.node]
        Left(a) ==
            IF a[other].child[LEFT] # NIL
            THEN Attach(rbt_clone(a, m, a[other].child[LEFT], this, prev, this), LEFT)
            ELSE a
        Right(a) ==
            IF a[other].child[RIGHT] # NIL
            THEN Attach(rbt_clone(a, m, a[other].child[RIGHT], this, this, next), RIGHT)
            ELSE a
    IN  [heap |-> Right(Left(Link((this :> node) @@ h))), node |-> this]

\* map(): head and tail are allocated and linked to each other
construct(h, m) ==
    LET Link(a) == [[a EXCEPT ![HeadOf(m)].next = TailOf(m)] EXCEPT ![TailOf(m)].prev = HeadOf(m)]
    IN  [heap |-> Link((HeadOf(m) :> SentinelNode) @@ (TailOf(m) :> SentinelNode) @@ h),
         this |-> m, head |-> HeadOf(m), tail |-> TailOf(m), root |-> NIL, size |-> 0,
         trace |-> <<>>]

\* root = other.root: the copy shares the nodes of other
clone_root_shallow(st, other) ==
    [st EXCEPT !.root = other.root,
               !.heap = link_node(link_node(@, st.head, @[other.head].next),
                                  @[other.tail].prev, st.tail)]

\* root = new rbt_node(other.root, nullptr, head, tail)
clone_root(st, other) ==
    LET Rooted(c) == [st EXCEPT !.heap = c.heap, !.root = c.node]
    IN  Rooted(rbt_clone(st.heap, st.this, other.root, NIL, st.head, st.tail))

\* map(const map &other), on the object map() has just constructed
copy_construct(st, other) ==
    IF other.size = 0 THEN st
    ELSE clone_root([st EXCEPT !.size = other.size], other)

\* operator=(const map &other); otherId is the address of other
copy_assign(st, other, otherId) ==
    LET Sized(s) == [s EXCEPT !.size = other.size]
        Cloned(s) == IF other.size = 0 THEN s ELSE clone_root(s, other)
    IN  IF st.this = otherId THEN st
        ELSE Cloned(Sized(clear(st)))

(***************************************************************************)
(* The state machine.  Both map objects exist from the start, as map()     *)
(* leaves them.  ref is the reference dictionary of each map: the set of   *)
(* (key, value) pairs a sorted dictionary would hold after the same calls. *)
(***************************************************************************)
NoRet ==
    [op |-> "none", map |-> 0, key |-> 0, arg |-> DefaultV,
     node |-> NIL, flag |-> FALSE, out |-> DefaultV, err |-> "none"]

Ret(op, m, key, arg, node, flag, out, err) ==
    [op |-> op, map |-> m, key |-> key, arg |-> arg,
     node |-> node, flag |-> flag, out |-> out, err |-> err]

\* what a workload that does not look at results keeps of a call
OpOnly(r) == [NoRet EXCEPT !.op = r.op]

Init ==
    /\ heap = construct(construct(<<>>, 1).heap, 2).heap
    /\ maps = [m \in Maps |-> Object(construct(<<>>, m))]
    /\ ref = [m \in Maps |-> {}]
    /\ ret = NoRet

Commit(st) ==
    /\ heap' = st.heap
    /\ maps' = [maps EXCEPT ![st.this] = Object(st)]

RefKeys(d) == {first(e) : e \in d}

RefPut(d, k, v) == {e \in d : first(e) # k} \cup {<<k, v>>}

RefDel(d, k) == {e \in d : first(e) # k}

RefGet(d, k) == second(CHOOSE e \in d : first(e) = k)

\* map.insert({k, v})
InsertEffect(m, k, v) ==
    /\ Commit(insert(Store(heap, maps, m), <<k, v>>).st)
    /\ ref' = [ref EXCEPT ![m] = IF k \in RefKeys(@) THEN @ ELSE RefPut(@, k, v)]

InsertRet(m, k, v) ==
    LET r == insert(Store(heap, maps, m), <<k, v>>)
    IN  Ret("insert", m, k, v, r.first.node, r.second, DefaultV, "none")

\* map[k], read only
SubscriptEffect(m, k) ==
    /\ Commit(subscript(Store(heap, maps, m), k).st)
    /\ ref' = [ref EXCEPT ![m] = IF k \in RefKeys(@) THEN @ ELSE RefPut(@, k, DefaultV)]

SubscriptRet(m, k) ==
    LET r == subscript(Store(heap, maps, m), k)
    IN  Ret("subscript", m, k, DefaultV, r.node, FALSE, second(r.st.heap[r.node].value), "none")

\* map[k] = v
AssignEffect(m, k, v) ==
    /\ LET r == subscript(Store(heap, maps, m), k)
       IN  Commit(assign(r.st, r.node, v))
    /\ ref' = [ref EXCEPT ![m] = RefPut(@, k, v)]

AssignRet(m, k, v) ==
    LET r == subscript(Store(heap, maps, m), k)
    IN  Ret("assign", m, k, v, r.node, FALSE, DefaultV, "none")

\* auto it = map.find(k); if (it != map.end()) map.erase(it);
EraseFoundEffect(m, k) ==
    LET st == Store(heap, maps, m)
        it == find(st, k)
    IN  /\ ~IterEq(it, end(st))
        /\ Commit(erase_iterator(st, it).st)
        /\ ref' = [ref EXCEPT ![m] = RefDel(@, k)]

EraseFoundRet(m, k) ==
    LET st == Store(heap, maps, m)
        it == find(st, k)
    IN  Ret("erase", m, k, DefaultV, it.node, FALSE, DefaultV, erase_iterator(st, it).err)

\* map.clear()
ClearEffect(m) ==
    /\ Commit(clear(Store(heap, maps, m)))
    /\ ref' = [ref EXCEPT ![m] = {}]

ClearRet(m) == Ret("clear", m, 0, DefaultV, NIL, FALSE, DefaultV, "none")

\* dst = src
CopyAssignEffect(dst, src) ==
    /\ Commit(copy_assign(Store(heap, maps, dst), maps[src], src))
    /\ ref' = [ref EXCEPT ![dst] = ref[src]]

CopyAssignRet(dst, src) == Ret("copy_assign", dst, src, DefaultV, NIL, FALSE, DefaultV, "none")

\* the object at dst is as map() leaves it: map dst(src) constructs it as a copy
Fresh(m) ==
    /\ maps[m].root = NIL
    /\ maps[m].size = 0
    /\ heap[maps[m].head].next = maps[m].tail
    /\ heap[maps[m].tail].prev = maps[m].head

CopyConstructEffect(dst, src) ==
    /\ dst # src
    /\ Fresh(dst)
    /\ Commit(copy_construct(Store(heap, maps, dst), maps[src]))
    /\ ref' = [ref EXCEPT ![dst] = ref[src]]

CopyConstructRet(dst, src) ==
    Ret("copy_construct", dst, src, DefaultV, NIL, FALSE, DefaultV, "none")

\* map.find(k), map.count(k), map.at(k): no effect on the map
FindRet(m, k) ==
    Ret("find", m, k, DefaultV, find(Store(heap, maps, m), k).node, FALSE, DefaultV, "none")

CountRet(m, k) ==
    Ret("count", m, k, DefaultV, NIL, FALSE, count(Store(heap, maps, m), k), "none")

AtRet(m, k) ==
    LET r == at(Store(heap, maps, m), k)
    IN  Ret("at", m, k, DefaultV, NIL, FALSE, r.out, r.err)

(***************************************************************************)
(* Spec: every call of the interface on one map, results recorded.         *)
(***************************************************************************)
Keys == 1..MaxKey

Insert == \E k \in Keys, v \in Values : InsertEffect(1, k, v) /\ ret' = InsertRet(1, k, v)

Subscript == \E k \in Keys : SubscriptEffect(1, k) /\ ret' = SubscriptRet(1, k)

Assign == \E k \in Keys, v \in Values : AssignEffect(1, k, v) /\ ret' = AssignRet(1, k, v)

EraseFound == \E k \in Keys : EraseFoundEffect(1, k) /\ ret' = EraseFoundRet(1, k)

Clear == ClearEffect(1) /\ ret' = ClearRet(1)

Find == \E k \in Keys : ret' = FindRet(1, k) /\ UNCHANGED <<heap, maps, ref>>

Count == \E k \in Keys : ret' = CountRet(1, k) /\ UNCHANGED <<heap, maps, ref>>

At == \E k \in Keys : ret' = AtRet(1, k) /\ UNCHANGED <<heap, maps, ref>>

Next == Insert \/ Subscript \/ Assign \/ EraseFound \/ Clear \/ Find \/ Count \/ At

Spec == Init /\ [][Next]_vars

(***************************************************************************)
(* SpecDeep: inserts and erases on map 1 over DeepMaxKey keys with default *)
(* values: trees of black height three and every branch of both fix-ups.   *)
(* Map 2 receives a copy of map 1, which is dropped before map 1 changes   *)
(* again.                                                                  *)
(***************************************************************************)
DeepKeys == 1..DeepMaxKey

DeepInsert == \E k \in DeepKeys : Fresh(2) /\ InsertEffect(1, k, DefaultV) /\ UNCHANGED ret

DeepEraseFound ==
    \E k \in DeepKeys : Fresh(2) /\ EraseFoundEffect(1, k) /\ UNCHANGED ret

DeepCopyConstruct == CopyConstructEffect(2, 1) /\ UNCHANGED ret

DeepCopyAssign == CopyAssignEffect(2, 1) /\ UNCHANGED ret

DeepDrop == ClearEffect(2) /\ UNCHANGED ret

DeepNext ==
    DeepInsert \/ DeepEraseFound \/ DeepCopyConstruct \/ DeepCopyAssign \/ DeepDrop

SpecDeep == Init /\ [][DeepNext]_vars

(***************************************************************************)
(* SpecFix: inserts, erases and clears on map 1 over FixMaxKey keys        *)
(* with default values.  ret keeps, of the last call, the key, the node    *)
(* it found or made, and the trace of the store it worked on.              *)
(***************************************************************************)
FixKeys == 1..FixMaxKey

FixRet(op, key, node, flag, trace) ==
    [op |-> op, key |-> key, node |-> node, flag |-> flag, trace |-> trace]

FixInsert ==
    \E k \in FixKeys :
        LET Returned(r) ==
                /\ Commit(r.st)
                /\ ref' = [ref EXCEPT ![1] = IF r.second THEN RefPut(@, k, DefaultV) ELSE @]
                /\ ret' = FixRet("insert", k, r.first.node, r.second, r.st.trace)
        IN  Returned(insert(Store(heap, maps, 1), <<k, DefaultV>>))

FixErase ==
    \E k \in FixKeys :
        LET Returned(it, r) ==
                /\ ~IterEq(it, end(Store(heap, maps, 1)))
                /\ Commit(r.st)
                /\ ref' = [ref EXCEPT ![1] = RefDel(@, k)]
                /\ ret' = FixRet("erase", k, it.node, TRUE, r.st.trace)
            Found(it) == Returned(it, erase_iterator(Store(heap, maps, 1), it))
        IN  Found(find(Store(heap, maps, 1), k))

FixClear ==
    /\ ClearEffect(1)
    /\ ret' = FixRet("clear", 0, NIL, FALSE, clear(Store(heap, maps, 1)).trace)

FixNext == FixInsert \/ FixErase \/ FixClear

SpecFix == Init /\ [][FixNext]_vars

(***************************************************************************)
(* SpecClone: every call that changes a map, over CloneMaxKey keys with    *)
(* default values, on a map and its copies.  A map is changed only while   *)
(* the other map is empty, so the two maps are either one tree and an      *)
(* empty map or a tree and its copy; a copy is changed after the map it    *)
(* was taken from has been cleared.                                        *)
(***************************************************************************)
CloneKeys == 1..CloneMaxKey

Other(m) == CHOOSE o \in Maps : o # m

CloneInsert ==
    \E m \in Maps, k \in CloneKeys :
        /\ Fresh(Other(m))
        /\ InsertEffect(m, k, DefaultV)
        /\ ret' = OpOnly(InsertRet(m, k, DefaultV))

CloneSubscript ==
    \E m \in Maps, k \in CloneKeys :
        /\ Fresh(Other(m))
        /\ SubscriptEffect(m, k)
        /\ ret' = OpOnly(SubscriptRet(m, k))

CloneEraseFound ==
    \E m \in Maps, k \in CloneKeys :
        /\ Fresh(Other(m))
        /\ EraseFoundEffect(m, k)
        /\ ret' = OpOnly(EraseFoundRet(m, k))

CloneClear == \E m \in Maps : ClearEffect(m) /\ ret' = OpOnly(ClearRet(m))

CloneCopyAssign ==
    \E dst \in Maps, src \in Maps :
        CopyAssignEffect(dst, src) /\ ret' = OpOnly(CopyAssignRet(dst, src))

CloneCopyConstruct ==
    \E dst \in Maps, src \in Maps :
        CopyConstructEffect(dst, src) /\ ret' = OpOnly(CopyConstructRet(dst, src))

CloneNext ==
    \/ CloneInsert \/ CloneSubscript \/ CloneEraseFound
    \/ CloneClear \/ CloneCopyAssign \/ CloneCopyConstruct

SpecClone == Init /\ [][CloneNext]_vars

(***************************************************************************)
(* SpecCopy: two maps, every interleaving of the calls that change them,   *)
(* over CopyMaxKey keys and two values.  ret keeps which call was made on  *)
(* which map (for a copy: from which map), and for clear and the copies    *)
(* how many entries the target held before the call.                       *)
(***************************************************************************)
CopyKeys == 1..CopyMaxKey

Target(r) == [NoRet EXCEPT !.op = r.op, !.map = r.map]

Replaced(r) == [Target(r) EXCEPT !.key = r.key, !.out = maps[r.map].size]

CopyInsert ==
    \E m \in Maps, k \in CopyKeys, v \in Values :
        InsertEffect(m, k, v) /\ ret' = Target(InsertRet(m, k, v))

CopyAssignValue ==
    \E m \in Maps, k \in CopyKeys, v \in Values :
        AssignEffect(m, k, v) /\ ret' = Target(AssignRet(m, k, v))

CopyEraseFound ==
    \E m \in Maps, k \in CopyKeys :
        EraseFoundEffect(m, k) /\ ret' = Target(EraseFoundRet(m, k))

CopyClear == \E m \in Maps : ClearEffect(m) /\ ret' = Replaced(ClearRet(m))

CopyCopyAssign ==
    \E dst \in Maps, src \in Maps :
        CopyAssignEffect(dst, src) /\ ret' = Replaced(CopyAssignRet(dst, src))

CopyCopyConstruct ==
    \E dst \in Maps, src \in Maps :
        CopyConstructEffect(dst, src) /\ ret' = Replaced(CopyConstructRet(dst, src))

CopyNext ==
    \/ CopyInsert \/ CopyAssignValue \/ CopyEraseFound
    \/ CopyClear \/ CopyCopyAssign \/ CopyCopyConstruct

SpecCopy == Init /\ [][CopyNext]_vars

(***************************************************************************)
(* SpecTest: the first loop of map_data/my_test.cpp:                       *)
(*     map[rand() % 200000] = rand();                                      *)
(*     auto it = map.find(rand() % 200000);                                *)
(*     if (it != map.end()) map.erase(it);                                 *)
(***************************************************************************)
TestKeys == 1..TestMaxKey

TestAssign ==
    \E k \in TestKeys, v \in Values :
        AssignEffect(1, k, v) /\ ret' = OpOnly(AssignRet(1, k, v))

TestEraseFound ==
    \E k \in TestKeys :
        /\ EraseFoundEffect(1, k)
        /\ ret' = [OpOnly(EraseFoundRet(1, k)) EXCEPT !.err = EraseFoundRet(1, k).err]

TestNext == TestAssign \/ TestEraseFound

SpecTest == Init /\ [][TestNext]_vars

(***************************************************************************)
(* SpecWalk: a caller that holds one iterator, over WalkMaxKey keys with   *)
(* default values.  ret is the iterator held: the map and node of the      *)
(* position begin(), end(), find(), ++ or -- last left.  Map 1 is built by *)
(* inserts and erases, map 2 is a copy of it; any call that changes a map  *)
(* other than through the iterator drops the iterator.  A program that     *)
(* std::terminate has ended takes no further step.                         *)
(***************************************************************************)
WalkKeys == 1..WalkMaxKey

IterOps == {"begin", "end", "find", "inc", "dec", "deref"}

Running == ret.err # "terminate"

Held == Running /\ ret.op \in IterOps

HeldIterator == iterator(ret.map, ret.node)

IterRet(op, r) == Ret(op, r.it.map, 0, DefaultV, r.it.node, FALSE, DefaultV, r.err)

WalkInsert ==
    \E k \in WalkKeys :
        /\ Running
        /\ Fresh(2)
        /\ InsertEffect(1, k, DefaultV)
        /\ ret' = OpOnly(InsertRet(1, k, DefaultV))

WalkCopy == Running /\ CopyConstructEffect(2, 1) /\ ret' = OpOnly(CopyConstructRet(2, 1))

WalkDrop == Running /\ ClearEffect(2) /\ ret' = OpOnly(ClearRet(2))

WalkBegin ==
    \E m \in Maps :
        /\ Running
        /\ ret' = IterRet("begin", [it |-> begin(Store(heap, maps, m)), err |-> "none"])
        /\ UNCHANGED <<heap, maps, ref>>

WalkEnd ==
    \E m \in Maps :
        /\ Running
        /\ ret' = IterRet("end", [it |-> end(Store(heap, maps, m)), err |-> "none"])
        /\ UNCHANGED <<heap, maps, ref>>

WalkFind ==
    \E m \in Maps, k \in WalkKeys :
        /\ Running
        /\ ret' = IterRet("find", [it |-> find(Store(heap, maps, m), k), err |-> "none"])
        /\ UNCHANGED <<heap, maps, ref>>

WalkInc ==
    /\ Held
    /\ \E r \in {pre_increment(heap, maps, HeldIterator),
                 post_increment(heap, maps, HeldIterator),
                 const_pre_increment(heap, maps, HeldIterator),
                 const_post_increment(heap, maps, HeldIterator)} :
          ret' = IterRet("inc", r)
    /\ UNCHANGED <<heap, maps, ref>>

WalkDec ==
    /\ Held
    /\ \E r \in {pre_decrement(heap, maps, HeldIterator),
                 post_decrement(heap, maps, HeldIterator),
                 const_pre_decrement(heap, maps, HeldIterator),
                 const_post_decrement(heap, maps, HeldIterator)} :
          ret' = IterRet("dec", r)
    /\ UNCHANGED <<heap, maps, ref>>

WalkDeref ==
    /\ Held
    /\ \E r \in {arrow(heap, maps, HeldIterator), star(heap, maps, HeldIterator),
                 const_arrow(heap, maps, HeldIterator),
                 const_star(heap, maps, HeldIterator)} :
          ret' = [IterRet("deref", r) EXCEPT !.out = r.out]
    /\ UNCHANGED <<heap, maps, ref>>

\* m.erase(it) with the iterator held, of this map or of the other one.  An
\* erase that removes an entry of map 1 is made while map 2 is empty.
WalkErase ==
    \E m \in Maps :
        LET r == erase_iterator(Store(heap, maps, m), HeldIterator)
        IN  /\ Held
            /\ (m = 1 /\ r.err = "none") => Fresh(2)
            /\ Commit(r.st)
            /\ ref' = [ref EXCEPT ![m] = IF r.err = "none"
                                         THEN RefDel(@, first(heap[ret.node].value))
                                         ELSE @]
            /\ ret' = Ret("erase_at", m, ret.map, DefaultV, ret.node, FALSE, DefaultV, r.err)

WalkNext ==
    \/ WalkInsert \/ WalkCopy \/ WalkDrop \/ WalkBegin \/ WalkEnd \/ WalkFind
    \/ WalkInc \/ WalkDec \/ WalkDeref \/ WalkErase

SpecWalk == Init /\ [][WalkNext]_vars

(***************************************************************************)
(* Reading a state: the walks a caller or a whitebox test can make.  Each  *)
(* walk is cut off after Fuel steps and at any address that is not a live  *)
(* node, and then reports ok = FALSE (or a NIL entry) instead of looping.  *)
(***************************************************************************)
Fuel == Cardinality(DOMAIN heap)

Sentinels == UNION {{maps[m].head, maps[m].tail} : m \in Maps}

Live == DOMAIN heap \ Sentinels

IsNode(n) == n \in Live

KeyOf(n) == first(heap[n].value)

Range(q) == {q[i] : i \in 1..Len(q)}

Reverse(q) == [i \in 1..Len(q) |-> q[Len(q) + 1 - i]]

RECURSIVE NextWalk(_, _, _)
NextWalk(cur, stop, fuel) ==
    IF cur = stop THEN [ok |-> TRUE, seq |-> <<>>]
    ELSE IF fuel = 0 \/ ~IsNode(cur) THEN [ok |-> FALSE, seq |-> <<>>]
    ELSE LET r == NextWalk(heap[cur].next, stop, fuel - 1)
         IN  [ok |-> r.ok, seq |-> <<cur>> \o r.seq]

RECURSIVE PrevWalk(_, _, _)
PrevWalk(cur, stop, fuel) ==
    IF cur = stop THEN [ok |-> TRUE, seq |-> <<>>]
    ELSE IF fuel = 0 \/ ~IsNode(cur) THEN [ok |-> FALSE, seq |-> <<>>]
    ELSE LET r == PrevWalk(heap[cur].prev, stop, fuel - 1)
         IN  [ok |-> r.ok, seq |-> <<cur>> \o r.seq]

\* the nodes from begin() to end(), and from the last node back to the first
Forward(m) == NextWalk(heap[maps[m].head].next, maps[m].tail, Fuel)

Backward(m) == PrevWalk(heap[maps[m].tail].prev, maps[m].head, Fuel)

\* the in-order walk of the subtree of n
RECURSIVE InOrder(_, _)
InOrder(n, fuel) ==
    IF n = NIL THEN <<>>
    ELSE IF fuel = 0 \/ ~IsNode(n) THEN <<NIL>>
    ELSE InOrder(heap[n].child[LEFT], fuel - 1) \o <<n>> \o InOrder(heap[n].child[RIGHT], fuel - 1)

TreeNodes(m) == Range(InOrder(maps[m].root, Fuel))

Subtree(n) == Range(InOrder(n, Fuel))

\* the (key, value) pairs read from begin() to end()
Items(m) == [i \in 1..Len(Forward(m).seq) |-> heap[Forward(m).seq[i]].value]

PresentKeys(m) == {first(Items(m)[i]) : i \in 1..Len(Items(m))}

\* the live node of map m that holds key k (tail when there is none)
NodeOfKey(m, k) ==
    IF k \in PresentKeys(m)
    THEN CHOOSE n \in Range(Forward(m).seq) : KeyOf(n) = k
    ELSE maps[m].tail

\* the sorted (key, value) sequence of a reference dictionary
RECURSIVE SortedItems(_)
SortedItems(d) ==
    IF d = {} THEN <<>>
    ELSE LET e == CHOOSE x \in d : \A y \in d : first(x) <= first(y)
         IN  <<e>> \o SortedItems(d \ {e})

\* the numbers of BLACK nodes on the paths from n down to an empty child
RECURSIVE BlackCounts(_, _)
BlackCounts(n, fuel) ==
    IF n = NIL THEN {0}
    ELSE IF fuel = 0 \/ ~IsNode(n) THEN {0, 1}
    ELSE {c + (IF heap[n].color = BLACK THEN 1 ELSE 0) :
            c \in BlackCounts(heap[n].child[LEFT], fuel - 1)
                  \cup BlackCounts(heap[n].child[RIGHT], fuel - 1)}

(***************************************************************************)
(* Claims about the reachable states.                                      *)
(***************************************************************************)
ListSorted(m) ==
    LET f == Forward(m)
        b == Backward(m)
    IN  /\ f.ok
        /\ b.ok
        /\ b.seq = Reverse(f.seq)
        /\ Cardinality(Range(f.seq)) = Len(f.seq)
        /\ \A i \in 1..Len(f.seq) - 1 : Compare(KeyOf(f.seq[i]), KeyOf(f.seq[i + 1]))

\* every node of the tree of map m is BLACK
AllBlack(m) == \A n \in TreeNodes(m) : n # NIL /\ heap[n].color = BLACK

\* C1: in every reachable state, following next from head visits every live
\* node exactly once in strictly ascending key order and ends at tail, and
\* following prev from tail visits the same nodes in reverse and ends at head.
C1_SequenceLayer ==
    /\ \A m \in Maps : ListSorted(m)
    /\ Live = UNION {Range(Forward(m).seq) : m \in Maps}
    /\ \A m \in Maps : Range(Forward(m).seq) \cap Range(Forward(Other(m)).seq) = {}

\* an erase has just acted on a copy that holds at least four entries
C1_Witness == ret.op = "erase" /\ Len(Forward(2).seq) >= 4 /\ maps[1].size = 0

\* C2: the in-order walk of the tree from root yields the same nodes in the
\* same order as the next-walk of the list, and every live node is in both.
C2_TreeMirrorsList ==
    /\ \A m \in Maps : Forward(m).ok /\ InOrder(maps[m].root, Fuel) = Forward(m).seq
    /\ Live = UNION {TreeNodes(m) : m \in Maps}

\* erases have left seven nodes, all BLACK (an insert always leaves a RED node)
C2_Witness == Len(Forward(1).seq) = 7 /\ AllBlack(1)

\* C3: for every node, every key in its left subtree compares less than its
\* key and every key in its right subtree compares greater.
C3_BinarySearch ==
    \A m \in Maps :
        /\ NIL \notin TreeNodes(m)
        /\ \A n \in TreeNodes(m) :
            /\ \A l \in Subtree(heap[n].child[LEFT]) : Compare(KeyOf(l), KeyOf(n))
            /\ \A r \in Subtree(heap[n].child[RIGHT]) : Compare(KeyOf(n), KeyOf(r))

\* a tree of DeepMaxKey nodes whose root has grandchildren on all four sides
C3_Witness ==
    /\ maps[1].size = DeepMaxKey
    /\ \A w \in BOOLEAN, v \in BOOLEAN :
        /\ heap[maps[1].root].child[w] # NIL
        /\ heap[heap[maps[1].root].child[w]].child[v] # NIL

\* C4: no RED node has a RED child, in a map or in a copy of it.
C4_NoRedRed ==
    \A n \in Live :
        heap[n].color = RED =>
            \A w \in BOOLEAN :
                heap[n].child[w] # NIL => heap[heap[n].child[w]].color = BLACK

\* a copy has been made of a tree of black height three that holds RED nodes
C4_Witness ==
    /\ 3 \in BlackCounts(maps[2].root, Fuel)
    /\ \E n \in TreeNodes(2) : heap[n].color = RED /\ heap[n].child[LEFT] # NIL

\* C5: every path from the root to an empty child position holds the same
\* number of BLACK nodes, in a map or in a copy of it.
C5_BlackHeight == \A m \in Maps : Cardinality(BlackCounts(maps[m].root, Fuel)) = 1

\* erases have left a tree of black height three, and a copy has been made of it
C5_Witness ==
    /\ maps[1].size < DeepMaxKey
    /\ BlackCounts(maps[1].root, Fuel) = {3}
    /\ BlackCounts(maps[2].root, Fuel) = {3}

\* C6: the root of a non-empty map is BLACK.
C6_RootBlack ==
    \A m \in Maps :
        maps[m].size # 0 => maps[m].root # NIL /\ heap[maps[m].root].color = BLACK

\* an erase has made the fix-up recolour up to the root: three nodes, all BLACK
C6_Witness == maps[1].size = 3 /\ AllBlack(1) /\ maps[2].size = 0

\* C7: size() is the number of live nodes and the number of increments from
\* begin() to end(), and empty() is true exactly when that number is 0.
C7_Size ==
    /\ \A m \in Maps :
        /\ Forward(m).ok
        /\ size(Store(heap, maps, m)) = Len(Forward(m).seq)
        /\ size(Store(heap, maps, m)) = Cardinality(TreeNodes(m))
        /\ empty(Store(heap, maps, m)) <=> Len(Forward(m).seq) = 0
    /\ Cardinality(Live) = maps[1].size + maps[2].size

\* a clear has emptied a map while its copy still holds entries
C7_Witness == ret.op = "clear" /\ maps[1].size = 0 /\ maps[2].size >= 2

\* C8: insert of a key that is present returns (the position of the entry,
\* false) and changes nothing: no node, link, colour, value or size.
C8_DuplicateInsert ==
    [][(ret'.op = "insert" /\ ret'.key \in PresentKeys(1)) =>
            /\ heap' = heap
            /\ maps' = maps
            /\ ret'.flag = FALSE
            /\ ret'.node = NodeOfKey(1, ret'.key)]_vars

\* an insert of a present key with a value other than the stored one returned false
C8_Witness ==
    /\ ret.op = "insert"
    /\ ~ret.flag
    /\ maps[1].size >= 3
    /\ IsNode(ret.node)
    /\ KeyOf(ret.node) = ret.key
    /\ second(heap[ret.node].value) # ret.arg

\* C9: under map[k] = v and erase(find(k)) made when find(k) != end(), no
\* call raises an error and the (key, value) sequence from begin() to end()
\* is that of a reference sorted dictionary given the same calls.
C9_TestRefinement ==
    /\ ret.err = "none"
    /\ Forward(1).ok
    /\ Items(1) = SortedItems(ref[1])

\* an erase has left TestMaxKey - 1 entries, one of them with a written value
C9_Witness ==
    /\ ret.op = "erase"
    /\ Len(Items(1)) = TestMaxKey - 1
    /\ \E i \in 1..Len(Items(1)) : second(Items(1)[i]) # DefaultV

\* C10: find(key) returns the position of the entry with that key, or end()
\* when there is none, and changes nothing; count(key) is 1 exactly when
\* find(key) != end() and 0 otherwise.
C10_FindCount ==
    [][/\ ret'.op = "find" =>
            /\ heap' = heap
            /\ maps' = maps
            /\ ret'.node = NodeOfKey(1, ret'.key)
       /\ ret'.op = "count" =>
            /\ heap' = heap
            /\ maps' = maps
            /\ ret'.out = (IF ret'.key \in PresentKeys(1) THEN 1 ELSE 0)
            /\ ret'.out = 1 <=>
                 ~IterEq(find(Store(heap, maps, 1), ret'.key), end(Store(heap, maps, 1)))]_vars

\* a find has returned the position of an entry that is not at the root
C10_Witness ==
    /\ ret.op = "find"
    /\ IsNode(ret.node)
    /\ ret.node # maps[1].root
    /\ KeyOf(ret.node) = ret.key
    /\ maps[1].size = MaxKey

\* C11: at(key) raises index_out_of_bound exactly when key is absent, and
\* then inserts nothing and leaves the map unchanged; when key is present
\* it returns the value stored under that key.
C11_At ==
    [][\A m \in Maps : (ret'.op = "at" /\ ret'.map = m) =>
            /\ heap' = heap
            /\ maps' = maps
            /\ ret'.err = "index_out_of_bound" <=> ret'.key \notin PresentKeys(m)
            /\ ret'.err \in {"none", "index_out_of_bound"}
            /\ ret'.key \in PresentKeys(m) =>
                 ret'.out = second(heap[NodeOfKey(m, ret'.key)].value)]_vars

\* at has raised index_out_of_bound for an absent key of a map that holds entries
C11_Witness ==
    /\ ret.op = "at"
    /\ ret.err = "index_out_of_bound"
    /\ ret.key \notin PresentKeys(1)
    /\ maps[1].size = MaxKey - 1

\* C12: operator[](key) always succeeds: for an absent key it inserts an
\* entry with a default-constructed value, size grows by exactly 1 and the
\* map invariants hold afterwards (the list is sorted in both directions, the
\* tree read in order is the list, no RED node has a RED child, the black
\* heights are equal, the root is BLACK); for a present key it returns the
\* existing value and changes no size, value, link or colour.
C12_Subscript ==
    [][\A m \in Maps : (ret'.op = "subscript" /\ ret'.map = m) =>
            /\ ret'.err = "none"
            /\ ret'.key \in PresentKeys(m) =>
                 /\ heap' = heap
                 /\ maps' = maps
                 /\ ret'.node = NodeOfKey(m, ret'.key)
                 /\ ret'.out = second(heap[ret'.node].value)
            /\ ret'.key \notin PresentKeys(m) =>
                 /\ maps'[m].size = maps[m].size + 1
                 /\ ret'.out = DefaultV
                 /\ Items(m)' =
                      SortedItems(Range(Items(m)) \cup {<<ret'.key, DefaultV>>})
                 /\ heap'[ret'.node].value = <<ret'.key, DefaultV>>
                 /\ ListSorted(m)' /\ C2_TreeMirrorsList'
                 /\ C4_NoRedRed' /\ C5_BlackHeight' /\ C6_RootBlack']_vars

\* operator[] has returned a written value of a present key without changing it
C12_Witness ==
    /\ ret.op = "subscript"
    /\ IsNode(ret.node)
    /\ ret.out # DefaultV
    /\ second(heap[ret.node].value) = ret.out
    /\ maps[1].size >= 3

\* C13: erase(position) raises invalid_iterator when position equals end()
\* or is an iterator of a different map, and then the map is left unchanged:
\* no size, link, colour or node differs.
C13_EraseInvalid ==
    [][\A m \in Maps :
          (ret.op \in IterOps /\ ret'.op = "erase_at" /\ ret'.map = m
              /\ (ret.map # m \/ ret.node = maps[m].tail)) =>
            /\ ret'.err = "invalid_iterator"
            /\ heap' = heap
            /\ maps' = maps]_vars

\* an erase on map 2, which holds entries, was given the position of an entry
\* of map 1 and has raised invalid_iterator
C13_Witness ==
    /\ ret.op = "erase_at"
    /\ ret.map = 2
    /\ ret.key = 1
    /\ ret.err = "invalid_iterator"
    /\ ret.node \in Range(Forward(1).seq)
    /\ maps[2].size >= 2

\* C14: erasing the position of a present key k removes exactly that entry:
\* afterwards find(k) == end(), size is one less, and every other (key,
\* value) pair is still present with its value and in the same order.
C14_EraseOne ==
    [][\A m \in Maps : (ret'.op = "erase" /\ ret'.map = m /\ ret'.key \in PresentKeys(m)) =>
            /\ ret'.err = "none"
            /\ IterEq(find(Store(heap', maps', m), ret'.key),
                      end(Store(heap', maps', m)))
            /\ maps'[m].size = maps[m].size - 1
            /\ Items(m)' =
                 SortedItems({e \in Range(Items(m)) : first(e) # ret'.key})
            /\ ret'.node \notin DOMAIN heap'
            /\ DOMAIN heap' = DOMAIN heap \ {ret'.node}]_vars

\* the root of a three-entry tree (the node with two children) has been
\* erased, and the two entries left keep their written values
C14_Witness ==
    /\ ret.op = "erase"
    /\ ret.key = 2
    /\ PresentKeys(1) = {1, 3}
    /\ \A i \in 1..Len(Items(1)) : second(Items(1)[i]) # DefaultV

\* the nodes of map m with its two sentinels
NodesOf(m) == Range(Forward(m).seq) \cup {maps[m].head, maps[m].tail}

\* C15: a map made by copy construction, or the target of a copy assignment
\* whatever it held before, has the size of the source and reads from
\* begin() to end() as the source does; the source is unchanged by the copy,
\* and self-assignment leaves the map unchanged.
C15_CopyEquals ==
    [][\A dst \in Maps, src \in Maps :
          (ret'.op \in {"copy_assign", "copy_construct"} /\ ret'.map = dst /\ ret'.key = src) =>
            /\ Forward(dst)'.ok
            /\ Items(dst)' = Items(src)
            /\ maps'[dst].size = maps[src].size
            /\ Items(src)' = Items(src)
            /\ maps'[src] = maps[src]
            /\ \A n \in NodesOf(src) : n \in DOMAIN heap' /\ (dst # src => heap'[n] = heap[n])
            /\ dst = src => heap' = heap]_vars

\* a copy assignment has replaced two entries of map 2 by the two entries of
\* map 1, which differ from them in a value
C15_Witness ==
    /\ ret.op = "copy_assign"
    /\ ret.map = 2
    /\ ret.key = 1
    /\ ret.out = 2
    /\ Len(Items(2)) = 2
    /\ \E i \in 1..2 : second(Items(2)[i]) # DefaultV
    /\ Items(1) = Items(2)

\* C16: a copy and its source share no node: insert, erase, clear and value
\* writes applied to one map leave the size and the (key, value) sequence of
\* the other unchanged.
C16_Independent ==
    [][\A m \in Maps :
          (ret'.op \in {"insert", "assign", "erase", "clear"} /\ ret'.map = m) =>
            /\ NodesOf(1) \cap NodesOf(2) = {}
            /\ (NodesOf(1) \cap NodesOf(2))' = {}
            /\ Items(Other(m))' = Items(Other(m))
            /\ maps'[Other(m)] = maps[Other(m)]
            /\ \A n \in NodesOf(Other(m)) : n \in DOMAIN heap' /\ heap'[n] = heap[n]]_vars

\* an entry of map 2 has been erased while map 1 keeps that entry and another
C16_Witness ==
    /\ ret.op = "erase"
    /\ ret.map = 2
    /\ Len(Items(1)) = 2
    /\ Len(Items(2)) = 1
    /\ Items(2)[1] \in Range(Items(1))
    /\ second(Items(2)[1]) # DefaultV

\* C17: clear() removes all nodes and leaves the map as map() constructs it:
\* size 0, root null, head.next == tail, tail.prev == head, begin() ==
\* end(); the object and its sentinels are those of a fresh map, so later
\* calls act on it as on a fresh map.
C17_ClearResets ==
    [][\A m \in Maps : (ret'.op = "clear" /\ ret'.map = m) =>
            /\ maps'[m] = Object(construct(<<>>, m))
            /\ \A n \in {maps[m].head, maps[m].tail} :
                 n \in DOMAIN heap' /\ heap'[n] = construct(<<>>, m).heap[n]
            /\ Fresh(m)'
            /\ IterEq(begin(Store(heap', maps', m)), end(Store(heap', maps', m)))
            /\ DOMAIN heap' = DOMAIN heap \ Range(Forward(m).seq)
            /\ \A n \in DOMAIN heap' \ NodesOf(m) : heap'[n] = heap[n]]_vars

\* a clear has removed the two entries of map 1 while map 2 keeps its own
C17_Witness ==
    /\ ret.op = "clear"
    /\ ret.map = 1
    /\ ret.out = 2
    /\ maps[1].size = 0
    /\ maps[2].size = 2

\* the position after p in key order, and the one before it
Successor(m, p) ==
    LET f == Forward(m).seq
    IN  IF \E i \in 1..Len(f) - 1 : f[i] = p
        THEN f[(CHOOSE i \in 1..Len(f) - 1 : f[i] = p) + 1]
        ELSE maps[m].tail

Predecessor(m, p) ==
    LET f == Forward(m).seq \o <<maps[m].tail>>
    IN  f[(CHOOSE i \in 2..Len(f) : f[i] = p) - 1]

\* C18: incrementing an iterator at end() and decrementing an iterator at
\* begin() (also begin() == end() of an empty map) each raise
\* invalid_iterator, in every form, and the iterator keeps its position.
C18_StepOffEnd ==
    [][\A m \in Maps : (ret.op \in IterOps /\ ret.map = m) =>
          /\ (ret'.op = "inc" /\ IterEq(HeldIterator, end(Store(heap, maps, m)))) =>
                /\ ret'.err = "invalid_iterator"
                /\ ret'.map = m /\ ret'.node = ret.node
                /\ heap' = heap /\ maps' = maps
          /\ (ret'.op = "dec" /\ IterEq(HeldIterator, begin(Store(heap, maps, m)))) =>
                /\ ret'.err = "invalid_iterator"
                /\ ret'.map = m /\ ret'.node = ret.node
                /\ heap' = heap /\ maps' = maps]_vars

\* a decrement at begin() of a map that holds entries has raised invalid_iterator
C18_Witness ==
    /\ ret.op = "dec"
    /\ ret.err = "invalid_iterator"
    /\ ret.map = 1
    /\ maps[1].size >= 2
    /\ ret.node = Forward(1).seq[1]

\* C19: operator* and operator-> of an iterator that denotes end() fail with
\* invalid_iterator delivered to the caller.
C19_DerefEnd ==
    (ret.op = "deref" /\ ret.node = maps[ret.map].tail) => ret.err = "invalid_iterator"

\* C20: at a position p of a map: if p != end(), ++ succeeds and yields the
\* position of the next larger key (end() from the largest); if p !=
\* begin(), -- succeeds and yields the position of the next smaller key; and
\* ++ followed by -- returns to p.
C20_Walk ==
    [][\A m \in Maps : (ret.op \in IterOps /\ ret.map = m) =>
          /\ (ret'.op = "inc" /\ ~IterEq(HeldIterator, end(Store(heap, maps, m)))) =>
                /\ ret'.err = "none"
                /\ ret'.map = m
                /\ ret'.node = Successor(m, ret.node)
                /\ pre_decrement(heap', maps', iterator(m, ret'.node)) =
                     [it |-> iterator(m, ret.node), err |-> "none"]
                /\ heap' = heap /\ maps' = maps
          /\ (ret'.op = "dec" /\ ~IterEq(HeldIterator, begin(Store(heap, maps, m)))) =>
                /\ ret'.err = "none"
                /\ ret'.map = m
                /\ ret'.node = Predecessor(m, ret.node)
                /\ heap' = heap /\ maps' = maps]_vars

\* a decrement from the second entry of a full map has reached begin()
C20_Witness ==
    /\ ret.op = "dec"
    /\ ret.err = "none"
    /\ ret.map = 1
    /\ maps[1].size = WalkMaxKey
    /\ ret.node = Forward(1).seq[1]


\* C21: positions are stable: an insert (by insert or by operator[]) and an
\* erase of some other entry leave every outstanding position on its node,
\* with the key and value it had, and dereferencing to the same pair; the
\* successor of an erased node with two children is such a position.
C21_PositionsStable ==
    [][ret'.op \in {"insert", "subscript", "erase"} =>
            \A n \in Live :
                \/ ret'.op = "erase" /\ n = ret'.node
                \/ /\ n \in DOMAIN heap'
                   /\ heap'[n].value = heap[n].value
                   /\ star(heap', maps', iterator(ret'.map, n)) =
                        star(heap, maps, iterator(ret'.map, n))]_vars

\* the root of a three-entry tree was erased and its successor, the node of
\* key 3, stands at the root with the node of key 1 as its left child
C21_Witness ==
    /\ ret.op = "erase"
    /\ ret.key = 2
    /\ PresentKeys(1) = {1, 3}
    /\ KeyOf(maps[1].root) = 3
    /\ heap[maps[1].root].child[LEFT] = NodeOfKey(1, 1)


\* C22: node lifecycle: insert, operator[] and map[k] = v allocate exactly
\* one node, the one they return, when the key was absent and none when it
\* was present; erase frees exactly the node of its position and clear
\* exactly the nodes of the list; find, count and at allocate and free
\* nothing.  After every call each link of an allocated node, and root, head
\* and tail, lead to an allocated node or are null: no freed node is
\* reachable.
C22_Lifecycle ==
    [][\A m \in Maps : ret'.map = m =>
         /\ ret'.op \in {"insert", "subscript", "assign"} =>
               IF \E n \in Range(Forward(m).seq) : KeyOf(n) = ret'.key
               THEN DOMAIN heap' = DOMAIN heap
               ELSE /\ ret'.node \notin DOMAIN heap
                    /\ DOMAIN heap' = DOMAIN heap \cup {ret'.node}
         /\ ret'.op = "erase" =>
               /\ ret'.node \in Range(Forward(m).seq)
               /\ DOMAIN heap' = DOMAIN heap \ {ret'.node}
         /\ ret'.op = "clear" =>
               DOMAIN heap' = DOMAIN heap \ Range(Forward(m).seq)
         /\ ret'.op \in {"find", "count", "at"} => DOMAIN heap' = DOMAIN heap
         /\ {maps'[m].head, maps'[m].tail} \subseteq DOMAIN heap'
         /\ maps'[m].root \in DOMAIN heap' \cup {NIL}
         /\ heap'[maps'[m].head].next \in DOMAIN heap'
         /\ heap'[maps'[m].tail].prev \in DOMAIN heap'
         /\ \A n \in Live' :
               /\ {heap'[n].prev, heap'[n].next} \subseteq DOMAIN heap'
               /\ {heap'[n].father, heap'[n].child[LEFT], heap'[n].child[RIGHT]}
                     \subseteq DOMAIN heap' \cup {NIL}]_vars

\* a duplicate insert has just left a map of three entries as it was, after
\* an erase and a clear freed nodes earlier: the allocator hands out the
\* address after the highest one only when the preferred one is taken
C22_Witness ==
    /\ ret.op = "insert"
    /\ ~ret.flag
    /\ maps[1].size = 3
    /\ Live = {NodeOfKey(1, k) : k \in PresentKeys(1)}
    /\ Cardinality(Live) = 3


(***************************************************************************)
(* sjtu::priority_queue of src/priority_queue.hpp: a leftist heap.  The    *)
(* heap maps addresses to leftist_node records and a queue object is       *)
(* [root, _size].                                                          *)
(***************************************************************************)
Queues == {1, 2}
PqValues == 1..PqMaxValue

\* new leftist_node: the lowest free address
PqNewAddr(h) ==
    CHOOSE a \in 1..(Cardinality(DOMAIN h) + 1) :
        a \notin DOMAIN h /\ \A b \in 1..(a - 1) : b \in DOMAIN h

\* leftist_node(const T &value)
leftist_node(value) ==
    [left_child |-> NIL, right_child |-> NIL, value |-> value, dist |-> 0]

\* the store an operation of queue q works on
PqStore(h, mp, q) == [heap |-> h, this |-> q, root |-> mp[q].root, _size |-> mp[q]._size]

PqObject(st) == [root |-> st.root, _size |-> st._size]

\* join that keeps a as the root whatever the two values are
RECURSIVE join_no_swap(_, _, _)
join_no_swap(h, a, b) ==
    IF b = NIL THEN [heap |-> h, node |-> a]
    ELSE IF a = NIL THEN [heap |-> h, node |-> b]
    ELSE
        LET Joined(r) == [r.heap EXCEPT ![a].right_child = r.node]
            Swap(g) == [g EXCEPT ![a].left_child = g[a].right_child,
                                 ![a].right_child = g[a].left_child]
            Leftist(g) ==
                IF /\ g[a].left_child # NIL
                   /\ g[b].right_child # NIL
                   /\ g[g[a].left_child].dist < g[g[a].right_child].dist
                THEN Swap(g) ELSE g
            Fill(g) ==
                IF g[a].left_child = NIL /\ g[b].right_child # NIL THEN Swap(g) ELSE g
            Dist(g) ==
                [g EXCEPT ![a].dist = IF g[a].right_child = NIL THEN 0
                                      ELSE g[g[a].right_child].dist + 1]
        IN  [heap |-> Dist(Fill(Leftist(Joined(join_no_swap(h, h[a].right_child, b))))),
             node |-> a]

\* leftist_node::join: yields the heap after the join and the root of the result
RECURSIVE join(_, _, _)
join(h, a, b) ==
    IF b = NIL THEN [heap |-> h, node |-> a]
    ELSE IF a = NIL THEN [heap |-> h, node |-> b]
    ELSE
        LET \* lines 48-49: a and b after std::swap(a, b)
            hi == IF Compare(h[a].value, h[b].value) THEN b ELSE a
            lo == IF Compare(h[a].value, h[b].value) THEN a ELSE b
            Joined(r) == [r.heap EXCEPT ![hi].right_child = r.node]
            Swap(g) == [g EXCEPT ![hi].left_child = g[hi].right_child,
                                 ![hi].right_child = g[hi].left_child]
            \* lines 54-55
            Leftist(g) ==
                IF /\ g[hi].left_child # NIL
                   /\ g[lo].right_child # NIL
                   /\ g[g[hi].left_child].dist < g[g[hi].right_child].dist
                THEN Swap(g) ELSE g
            \* lines 56-57
            Fill(g) ==
                IF g[hi].left_child = NIL /\ g[lo].right_child # NIL THEN Swap(g) ELSE g
            \* line 60
            Dist(g) ==
                [g EXCEPT ![hi].dist = IF g[hi].right_child = NIL THEN 0
                                       ELSE g[g[hi].right_child].dist + 1]
        IN  [heap |-> Dist(Fill(Leftist(Joined(join(h, h[hi].right_child, lo))))),
             node |-> hi]

pq_size(st) == st._size

pq_empty(st) == st._size = 0

\* const T &top() const
top(st) ==
    IF pq_empty(st) THEN [out |-> DefaultV, err |-> "container_is_empty"]
    ELSE [out |-> st.heap[st.root].value, err |-> "none"]

\* void push(const T &e)
push(st, e) ==
    LET new == PqNewAddr(st.heap)
        Rooted(r) == [st EXCEPT !.heap = r.heap, !.root = r.node, !._size = @ + 1]
    IN  Rooted(join((new :> leftist_node(e)) @@ st.heap, st.root, new))

\* pop that returns quietly when the queue is empty
pop_silent(st) ==
    IF pq_empty(st) THEN [st |-> st, err |-> "none"]
    ELSE
        LET old_root == st.root
            Rooted(r) ==
                [st EXCEPT !.heap = Delete(r.heap, old_root), !.root = r.node, !._size = @ - 1]
        IN  [st |-> Rooted(join(st.heap, st.heap[st.root].left_child,
                                st.heap[st.root].right_child)),
             err |-> "none"]

\* pop that joins nothing: the left subtree becomes the queue
pop_left_only(st) ==
    IF pq_empty(st) THEN [st |-> st, err |-> "container_is_empty"]
    ELSE
        LET old_root == st.root
        IN  [st |-> [st EXCEPT !.heap = Delete(@, old_root),
                               !.root = st.heap[old_root].left_child,
                               !._size = @ - 1],
             err |-> "none"]

\* void pop()
pop(st) ==
    IF pq_empty(st) THEN [st |-> st, err |-> "container_is_empty"]
    ELSE
        LET old_root == st.root
            Rooted(r) ==
                [st EXCEPT !.heap = Delete(r.heap, old_root), !.root = r.node, !._size = @ - 1]
        IN  [st |-> Rooted(join(st.heap, st.heap[st.root].left_child,
                                st.heap[st.root].right_child)),
             err |-> "none"]

\* merge that leaves other.root as it was
merge_keep_other_root(st, other) ==
    LET Rooted(r) == [heap |-> r.heap,
                      this |-> [root |-> r.node, _size |-> st._size + other._size],
                      other |-> [root |-> other.root, _size |-> 0]]
    IN  Rooted(join(st.heap, st.root, other.root))

\* void merge(priority_queue &other): yields the heap and the two objects
merge(st, other) ==
    LET Rooted(r) == [heap |-> r.heap,
                      this |-> [root |-> r.node, _size |-> st._size + other._size],
                      other |-> [root |-> NIL, _size |-> 0]]
    IN  Rooted(join(st.heap, st.root, other.root))

(***************************************************************************)
(* SpecPQ: push, pop, top and merge on two queues, results recorded.  ref  *)
(* is the reference multiset of each queue: how many times each element    *)
(* was pushed or merged in and not yet popped.                             *)
(***************************************************************************)
PqRet(op, q, other, arg, out, err) ==
    [NoRet EXCEPT !.op = op, !.map = q, !.key = other, !.arg = arg, !.out = out, !.err = err]

InitPQ ==
    /\ heap = <<>>
    /\ maps = [q \in Queues |-> [root |-> NIL, _size |-> 0]]
    /\ ref = [q \in Queues |-> [v \in PqValues |-> 0]]
    /\ ret = NoRet

\* the greatest element of a reference multiset
RefTop(b) == CHOOSE v \in PqValues : b[v] > 0 /\ \A w \in PqValues : b[w] > 0 => w <= v

PqCommit(st) ==
    /\ heap' = st.heap
    /\ maps' = [maps EXCEPT ![st.this] = PqObject(st)]

PushEffect(q, e) ==
    /\ PqCommit(push(PqStore(heap, maps, q), e))
    /\ ref' = [ref EXCEPT ![q][e] = @ + 1]

PopEffect(q) ==
    /\ PqCommit(pop(PqStore(heap, maps, q)).st)
    /\ ref' = IF \E v \in PqValues : ref[q][v] > 0
              THEN [ref EXCEPT ![q][RefTop(ref[q])] = @ - 1]
              ELSE ref

MergeEffect(a, b) ==
    LET r == merge(PqStore(heap, maps, a), maps[b])
    IN  /\ a # b
        /\ heap' = r.heap
        /\ maps' = [maps EXCEPT ![a] = r.this, ![b] = r.other]
        /\ ref' = [ref EXCEPT ![a] = [v \in PqValues |-> ref[a][v] + ref[b][v]],
                              ![b] = [v \in PqValues |-> 0]]

PqPush ==
    \E q \in Queues, e \in PqValues :
        /\ Cardinality(DOMAIN heap) < PqMaxNodes
        /\ PushEffect(q, e)
        /\ ret' = PqRet("push", q, 0, e, DefaultV, "none")

PqPop ==
    \E q \in Queues :
        /\ PopEffect(q)
        /\ ret' = PqRet("pop", q, 0, DefaultV, DefaultV, pop(PqStore(heap, maps, q)).err)

PqTop ==
    \E q \in Queues :
        LET r == top(PqStore(heap, maps, q))
        IN  /\ ret' = PqRet("top", q, 0, DefaultV, r.out, r.err)
            /\ UNCHANGED <<heap, maps, ref>>

PqMerge ==
    \E a \in Queues, b \in Queues :
        /\ MergeEffect(a, b)
        /\ ret' = PqRet("merge", a, b, DefaultV, DefaultV, "none")

PqNext == PqPush \/ PqPop \/ PqTop \/ PqMerge

SpecPQ == InitPQ /\ [][PqNext]_vars

(***************************************************************************)
(* SpecPQDeep: pushes, pops and merges on two queues of up to              *)
(* PqDeepMaxNodes nodes together, results not recorded: heaps deep enough  *)
(* for both exchanges of children in join.                                 *)
(***************************************************************************)
PqDeepValues == 1..PqDeepMaxValue

PqDeepPush ==
    \E q \in Queues, e \in PqDeepValues :
        /\ Cardinality(DOMAIN heap) < PqDeepMaxNodes
        /\ PushEffect(q, e)
        /\ UNCHANGED ret

PqDeepPop == \E q \in Queues : ~pq_empty(PqStore(heap, maps, q)) /\ PopEffect(q) /\ UNCHANGED ret

PqDeepMerge == \E a \in Queues, b \in Queues : MergeEffect(a, b) /\ UNCHANGED ret

PqDeepNext == PqDeepPush \/ PqDeepPop \/ PqDeepMerge

SpecPQDeep == InitPQ /\ [][PqDeepNext]_vars

(***************************************************************************)
(* What a state of SpecPQ holds.                                           *)
(***************************************************************************)
\* the nodes of the subtree of n, root first; fuel bounds the walk
RECURSIVE PqWalk(_, _)
PqWalk(n, fuel) ==
    IF n = NIL \/ fuel = 0 \/ n \notin DOMAIN heap THEN <<>>
    ELSE <<n>> \o PqWalk(heap[n].left_child, fuel - 1)
               \o PqWalk(heap[n].right_child, fuel - 1)

\* the nodes queue q owns
PqNodes(q) == PqWalk(maps[q].root, Cardinality(DOMAIN heap) + 1)

\* the multiset of the elements of queue q: element -> number of occurrences
Contents(q) ==
    [v \in PqValues |->
        Cardinality({i \in 1..Len(PqNodes(q)) : heap[PqNodes(q)[i]].value = v})]


\* C23: in every state reached by push, pop and merge, top() on a
\* non-empty queue returns an element x of the queue such that
\* Compare(x, y) is false for every element y of the queue.
C23_TopGreatest ==
    \A q \in Queues :
        ~pq_empty(PqStore(heap, maps, q)) =>
           /\ top(PqStore(heap, maps, q)).err = "none"
           /\ Contents(q)[top(PqStore(heap, maps, q)).out] > 0
           /\ \A y \in PqValues :
                 Contents(q)[y] > 0 => ~Compare(top(PqStore(heap, maps, q)).out, y)

\* a queue of four nodes holds 1 and 2 twice each, with a node below the
\* root that has a right child and no left child: join has exchanged, and
\* has failed to exchange, children on the way
C23_Witness ==
    \E q \in Queues :
        /\ top(PqStore(heap, maps, q)).out = 2
        /\ Contents(q)[1] = 2 /\ Contents(q)[2] = 2
        /\ \E i \in 2..Len(PqNodes(q)) :
              /\ heap[PqNodes(q)[i]].left_child = NIL
              /\ heap[PqNodes(q)[i]].right_child # NIL

\* C24: pop() on a non-empty queue removes exactly one occurrence of the
\* element top() returned before it and nothing else, and size() is one
\* less; push(e) adds exactly one occurrence of e and nothing else, and
\* size() is one more.
C24_PushPop ==
    [][\A q \in Queues : ret'.map = q =>
         /\ (ret'.op = "pop" /\ ~pq_empty(PqStore(heap, maps, q))) =>
               /\ ret'.err = "none"
               /\ Contents(q)' =
                    [Contents(q) EXCEPT ![top(PqStore(heap, maps, q)).out] = @ - 1]
               /\ pq_size(PqStore(heap', maps', q)) = pq_size(PqStore(heap, maps, q)) - 1
               /\ Len(PqNodes(q))' = Len(PqNodes(q)) - 1
         /\ ret'.op = "push" =>
               /\ Contents(q)' = [Contents(q) EXCEPT ![ret'.arg] = @ + 1]
               /\ pq_size(PqStore(heap', maps', q)) = pq_size(PqStore(heap, maps, q)) + 1
               /\ Len(PqNodes(q))' = Len(PqNodes(q)) + 1]_vars

\* pop() has removed one of the two greatest elements of a queue of three
C24_Witness ==
    /\ ret.op = "pop"
    /\ ret.err = "none"
    /\ maps[ret.map]._size = 2
    /\ Contents(ret.map) = [v \in PqValues |-> IF v = 1 \/ v = PqMaxValue THEN 1 ELSE 0]
    /\ ref[ret.map] = Contents(ret.map)


\* C25: a.merge(b) for two distinct queues leaves a holding the multiset
\* union of the elements a and b held before, with a.size() the sum of the
\* two sizes, and leaves b empty: b.size() == 0, b.empty(), b owns no node.
C25_Merge ==
    [][\A a \in Queues, b \in Queues :
         (ret'.op = "merge" /\ ret'.map = a /\ ret'.key = b) =>
            /\ Contents(a)' = [v \in PqValues |-> Contents(a)[v] + Contents(b)[v]]
            /\ pq_size(PqStore(heap', maps', a)) =
                 pq_size(PqStore(heap, maps, a)) + pq_size(PqStore(heap, maps, b))
            /\ Len(PqNodes(a))' = Len(PqNodes(a)) + Len(PqNodes(b))
            /\ pq_size(PqStore(heap', maps', b)) = 0
            /\ pq_empty(PqStore(heap', maps', b))
            /\ maps'[b].root = NIL
            /\ PqNodes(b)' = <<>>
            /\ DOMAIN heap' = DOMAIN heap]_vars

\* two queues that held three different elements between them have been
\* merged into one, with the greatest element at its root
C25_Witness ==
    /\ ret.op = "merge"
    /\ maps[ret.map]._size = 3
    /\ maps[ret.key]._size = 0
    /\ Contents(ret.map) = [v \in PqValues |-> IF v \in {1, 2, PqMaxValue} THEN 1 ELSE 0]
    /\ ref[ret.map] = Contents(ret.map)
    /\ heap[maps[ret.map].root].value = PqMaxValue

\* C26: top() and pop() on an empty queue throw container_is_empty and leave
\* the queue unchanged: size stays 0 and root stays null.
C26_EmptyThrows ==
    [][\A q \in Queues :
         (ret'.op \in {"top", "pop"} /\ ret'.map = q /\ pq_empty(PqStore(heap, maps, q))) =>
            /\ ret'.err = "container_is_empty"
            /\ heap' = heap
            /\ maps' = maps
            /\ pq_size(PqStore(heap', maps', q)) = 0
            /\ maps'[q].root = NIL]_vars

\* pop() has thrown on a queue emptied by a merge while the other queue
\* holds elements
C26_Witness ==
    /\ ret.op = "pop"
    /\ ret.err = "container_is_empty"
    /\ maps[ret.map]._size = 0
    /\ \E q \in Queues : maps[q]._size = PqMaxNodes


(***************************************************************************)
(* sjtu::deque of src/unnamed/part_000: an unrolled linked list.  A deque  *)
(* is a list of buckets between two sentinel buckets and a bucket is a     *)
(* list of nodes between two sentinel nodes; buckets and nodes live in the *)
(* same heap.  A node holds a pointer to its element: <<v>> for the        *)
(* element v and NullValue for nullptr.                                    *)
(***************************************************************************)
Deques == {1, 2}

\* lines 41-44, in hundredths
MIN_FOR_SPLIT == 990
CONSTANT_FOR_SPLIT == 289
CONSTANT_FOR_NEW == 198
CONSTANT_FOR_MERGE == 48

\* x > max(MIN_FOR_SPLIT, c * std::sqrt(n)) for a count x, in integers; no
\* count below 99 has c * std::sqrt(n) within rounding of it
Above(x, c, n) == 100 * x > MIN_FOR_SPLIT /\ (100 * x) * (100 * x) > c * c * n

\* x > SPLIT_PARA(), x > NEW_PARA(), x < MERGE_PARA() when __size is n
SPLIT_PARA(x, n) == Above(x, CONSTANT_FOR_SPLIT, n)

NEW_PARA(x, n) == Above(x, CONSTANT_FOR_NEW, n)

MERGE_PARA(x, n) == (100 * x) * (100 * x) < CONSTANT_FOR_MERGE * CONSTANT_FOR_MERGE * n

\* new: the lowest free address
DqNewAddr(h) ==
    CHOOSE a \in 1..(Cardinality(DOMAIN h) + 1) :
        a \notin DOMAIN h /\ \A b \in 1..(a - 1) : b \in DOMAIN h

\* node()
dq_node == [prev |-> NIL, next |-> NIL, value |-> NullValue]

\* p->prev = v, p->next = v, p->size = v, p->tail = v
SetPrev(h, p, v) == [h EXCEPT ![p].prev = v]

SetNext(h, p, v) == [h EXCEPT ![p].next = v]

SetSize(h, p, v) == [h EXCEPT ![p].size = v]

SetTail(h, p, v) == [h EXCEPT ![p].tail = v]

\* new bucket: prev and next are left unwritten; yields the heap and the bucket
bucket(h) ==
    LET b == DqNewAddr(h)
        hd == DqNewAddr((b :> dq_node) @@ h)
        tl == DqNewAddr((b :> dq_node) @@ (hd :> dq_node) @@ h)
    IN  [heap |-> (b :> [prev |-> Uninit, next |-> Uninit, head |-> hd, tail |-> tl, size |-> 0])
                  @@ (hd :> [dq_node EXCEPT !.next = tl])
                  @@ (tl :> [dq_node EXCEPT !.prev = hd]) @@ h,
         bucket |-> b]

\* the node reached from n by k steps of ->next
RECURSIVE Steps(_, _, _)
Steps(h, n, k) == IF k = 0 THEN n ELSE Steps(h, h[n].next, k - 1)

\* bucket::__split_before(pos): the nodes from index at_pos on move to a new
\* bucket linked after this one
__split_before(h, this, at_pos) ==
    LET new_last == Steps(h, h[this].head, at_pos)
        new_first == h[new_last].next
        nb == bucket(h).bucket
        L97(g) == SetNext(g, nb, g[this].next)
        L98(g) == SetPrev(g, nb, this)
        L99(g) == SetPrev(g, g[this].next, nb)
        L100(g) == SetNext(g, this, nb)
        L102(g) == SetPrev(g, g[nb].tail, g[g[this].tail].prev)
        L103(g) == SetNext(g, g[g[this].tail].prev, g[nb].tail)
        L104(g) == SetNext(g, g[nb].head, new_first)
        L105(g) == SetPrev(g, new_first, g[nb].head)
        L107(g) == SetPrev(g, g[this].tail, new_last)
        L108(g) == SetNext(g, new_last, g[this].tail)
        L110(g) == SetSize(g, nb, g[this].size - at_pos)
        L111(g) == SetSize(g, this, at_pos)
    IN  L111(L110(L108(L107(L105(L104(L103(L102(L100(L99(L98(L97(bucket(h).heap))))))))))))

\* __merge_next that links this bucket's last node to the next bucket's
\* tail: the nodes of the next bucket drop out of the list
__merge_next_drop(h, this) ==
    LET old_tail == h[this].tail
        old_head == h[h[this].next].head
        old_bucket == h[this].next
        L122(g) == SetNext(g, g[old_tail].prev, g[old_bucket].tail)
        L123(g) == SetPrev(g, g[old_bucket].tail, g[old_tail].prev)
        L124(g) == Delete(Delete(g, old_head), old_tail)
        L126(g) == SetTail(g, this, g[g[this].next].tail)
        L128(g) == SetSize(g, this, g[this].size + g[g[this].next].size)
        L131(g) == SetPrev(g, g[old_bucket].next, this)
        L132(g) == SetNext(g, this, g[old_bucket].next)
        L133(g) == Delete(g, old_bucket)
    IN  L133(L132(L131(L128(L126(L124(L123(L122(h))))))))

\* bucket::__merge_next(): the next bucket's nodes are appended to this one
__merge_next(h, this) ==
    LET old_tail == h[this].tail
        old_head == h[h[this].next].head
        old_bucket == h[this].next
        L122(g) == SetNext(g, g[old_tail].prev, g[old_head].next)
        L123(g) == SetPrev(g, g[old_head].next, g[old_tail].prev)
        L124(g) == Delete(Delete(g, old_head), old_tail)
        L126(g) == SetTail(g, this, g[g[this].next].tail)
        L128(g) == SetSize(g, this, g[this].size + g[g[this].next].size)
        L131(g) == SetPrev(g, g[old_bucket].next, this)
        L132(g) == SetNext(g, this, g[old_bucket].next)
        L133(g) == Delete(g, old_bucket)
    IN  L133(L132(L131(L128(L126(L124(L123(L122(h))))))))

\* bucket::clear(): the loop of lines 157-162
RECURSIVE bucket_clear_loop(_, _, _)
bucket_clear_loop(h, cur, tail_node) ==
    IF cur = tail_node THEN h
    ELSE bucket_clear_loop(Delete(h, cur), h[cur].next, tail_node)

bucket_clear(h, b) == SetSize(bucket_clear_loop(h, h[h[b].head].next, h[b].tail), b, 0)

\* the store an operation of deque d works on
DqStore(h, mp, d) ==
    [heap |-> h, this |-> d, head |-> mp[d].head, tail |-> mp[d].tail, __size |-> mp[d].__size]

DqObject(st) == [head |-> st.head, tail |-> st.tail, __size |-> st.__size]

\* deque(): two sentinel buckets linked to each other
deque(h, d) ==
    LET Linked(hb) ==
            [heap |-> SetPrev(SetNext(bucket(hb.heap).heap, hb.bucket, bucket(hb.heap).bucket),
                              bucket(hb.heap).bucket, hb.bucket),
             this |-> d, head |-> hb.bucket, tail |-> bucket(hb.heap).bucket, __size |-> 0]
    IN  Linked(bucket(h))

\* a position: iterator(__deque, __bucket, __node)
dq_iterator(d, b, n) == [deque |-> d, bucket |-> b, node |-> n]

dq_begin(st) ==
    dq_iterator(st.this, st.heap[st.head].next, st.heap[st.heap[st.heap[st.head].next].head].next)

dq_end(st) == dq_iterator(st.this, st.tail, st.heap[st.heap[st.tail].head].next)

\* bool operator==(const iterator &rhs) const
dq_eq(a, b) == a.node = b.node

\* reference operator*() const
dq_star(h, it) ==
    IF it.node = NIL \/ h[it.node].value = NullValue
    THEN [out |-> DefaultV, err |-> "invalid_iterator"]
    ELSE [out |-> h[it.node].value[1], err |-> "none"]

\* iterator &operator++()
dq_pre_increment(st, it) ==
    LET h == st.heap
        Hop(n) == IF n = h[it.bucket].tail
                  THEN dq_iterator(it.deque, h[it.bucket].next, h[h[h[it.bucket].next].head].next)
                  ELSE dq_iterator(it.deque, it.bucket, n)
    IN  IF dq_eq(it, dq_end(st)) THEN [it |-> it, err |-> "invalid_iterator"]
        ELSE [it |-> Hop(h[it.node].next), err |-> "none"]

\* iterator &operator--()
dq_pre_decrement(st, it) ==
    LET h == st.heap
        Hop(n) == IF n = h[it.bucket].head
                  THEN dq_iterator(it.deque, h[it.bucket].prev, h[h[h[it.bucket].prev].tail].prev)
                  ELSE dq_iterator(it.deque, it.bucket, n)
    IN  IF dq_eq(it, dq_begin(st)) THEN [it |-> it, err |-> "invalid_iterator"]
        ELSE [it |-> Hop(h[it.node].prev), err |-> "none"]

\* the node reached from n by k steps of ->prev
RECURSIVE StepsBack(_, _, _)
StepsBack(h, n, k) == IF k = 0 THEN n ELSE StepsBack(h, h[n].prev, k - 1)

\* operator+: the loop of lines 578-581; reading ->next of a null node is
\* undefined
RECURSIVE plus_nodes(_, _, _, _, _)
plus_nodes(h, b, node, cur_diff, n) ==
    IF cur_diff >= n THEN [node |-> node, cur_diff |-> cur_diff, undefined |-> FALSE]
    ELSE IF node = NIL THEN [node |-> node, cur_diff |-> cur_diff, undefined |-> TRUE]
    ELSE IF h[node].next = h[b].tail
    THEN [node |-> node, cur_diff |-> cur_diff, undefined |-> FALSE]
    ELSE plus_nodes(h, b, h[node].next, cur_diff + 1, n)

\* operator+: the loop of lines 585-588
RECURSIVE plus_buckets(_, _, _, _)
plus_buckets(h, b, cur_diff, n) ==
    IF cur_diff + h[b].size <= n /\ h[b].size # 0
    THEN plus_buckets(h, h[b].next, cur_diff + h[b].size, n)
    ELSE [bucket |-> b, cur_diff |-> cur_diff]

\* operator-: the loop of lines 606-609
RECURSIVE minus_nodes(_, _, _, _, _)
minus_nodes(h, b, node, cur_diff, n) ==
    IF cur_diff >= n THEN [node |-> node, cur_diff |-> cur_diff, undefined |-> FALSE]
    ELSE IF node = NIL THEN [node |-> node, cur_diff |-> cur_diff, undefined |-> TRUE]
    ELSE IF h[node].prev = h[b].head
    THEN [node |-> node, cur_diff |-> cur_diff, undefined |-> FALSE]
    ELSE minus_nodes(h, b, h[node].prev, cur_diff + 1, n)

\* operator-: the loop of lines 613-616
RECURSIVE minus_buckets(_, _, _, _)
minus_buckets(h, b, cur_diff, n) ==
    IF cur_diff + h[b].size <= n /\ h[b].size # 0
    THEN minus_buckets(h, h[b].prev, cur_diff + h[b].size, n)
    ELSE [bucket |-> b, cur_diff |-> cur_diff]

RECURSIVE dq_plus(_, _, _)
RECURSIVE dq_minus(_, _, _)

\* iterator operator+(const difference_type &n) const
dq_plus(st, it, n) ==
    LET h == st.heap
        L578 == plus_nodes(h, it.bucket, it.node, 0, n)
        L585 == plus_buckets(h, h[it.bucket].next, L578.cur_diff + 1, n)
    IN  IF n < 0 THEN dq_minus(st, it, -n)
        ELSE IF L578.undefined THEN [it |-> it, err |-> "undefined"]
        ELSE IF L578.cur_diff = n
        THEN [it |-> dq_iterator(it.deque, it.bucket, L578.node), err |-> "none"]
        ELSE IF h[L585.bucket].size = 0 /\ L585.cur_diff # n
        THEN [it |-> it, err |-> "invalid_iterator"]
        ELSE [it |-> dq_iterator(it.deque, L585.bucket,
                                 Steps(h, h[h[L585.bucket].head].next, n - L585.cur_diff)),
              err |-> "none"]

\* iterator operator-(const difference_type &n) const
dq_minus(st, it, n) ==
    LET h == st.heap
        L606 == minus_nodes(h, it.bucket, it.node, 0, n)
        L613 == minus_buckets(h, h[it.bucket].prev, L606.cur_diff + 1, n)
    IN  IF n < 0 THEN dq_plus(st, it, -n)
        ELSE IF L606.undefined THEN [it |-> it, err |-> "undefined"]
        ELSE IF L606.cur_diff = n
        THEN [it |-> dq_iterator(it.deque, it.bucket, L606.node), err |-> "none"]
        ELSE IF h[L613.bucket].size = 0 /\ L613.cur_diff # n
        THEN [it |-> it, err |-> "invalid_iterator"]
        ELSE [it |-> dq_iterator(it.deque, L613.bucket,
                                 StepsBack(h, h[h[L613.bucket].tail].prev, n - L613.cur_diff)),
              err |-> "none"]

\* iterator &operator+=(const difference_type &n): *this moves only when
\* operator+ returned
dq_plus_assign(st, it, n) ==
    IF dq_plus(st, it, n).err # "none" THEN [it |-> it, err |-> dq_plus(st, it, n).err]
    ELSE [it |-> [it EXCEPT !.bucket = dq_plus(st, it, n).it.bucket,
                            !.node = dq_plus(st, it, n).it.node],
          err |-> "none"]

\* iterator &operator-=(const int &n)
dq_minus_assign(st, it, n) ==
    IF dq_minus(st, it, n).err # "none" THEN [it |-> it, err |-> dq_minus(st, it, n).err]
    ELSE [it |-> [it EXCEPT !.bucket = dq_minus(st, it, n).it.bucket,
                            !.node = dq_minus(st, it, n).it.node],
          err |-> "none"]

\* operator[]: the loop of lines 252-255, the bucket that holds index at_pos
RECURSIVE subscript_bucket(_, _, _, _)
subscript_bucket(h, cur_bucket, cur_pos, at_pos) ==
    IF cur_pos + h[cur_bucket].size <= at_pos
    THEN subscript_bucket(h, h[cur_bucket].next, cur_pos + h[cur_bucket].size, at_pos)
    ELSE [cur_bucket |-> cur_bucket, cur_pos |-> cur_pos]

\* operator[] without the test of line 249
dq_subscript_unchecked(st, at_pos) ==
    LET h == st.heap
        Node(r) == Steps(h, h[h[r.cur_bucket].head].next, at_pos - r.cur_pos)
    IN  IF at_pos >= st.__size
        THEN [out |-> DefaultV, err |-> "none"]
        ELSE [out |-> h[Node(subscript_bucket(h, h[st.head].next, 0, at_pos))].value[1],
              err |-> "none"]

\* T &operator[](const size_t &pos)
dq_subscript(st, at_pos) ==
    LET h == st.heap
        Node(r) == Steps(h, h[h[r.cur_bucket].head].next, at_pos - r.cur_pos)
    IN  IF at_pos < 0 \/ at_pos >= st.__size
        THEN [out |-> DefaultV, err |-> "index_out_of_bound"]
        ELSE [out |-> h[Node(subscript_bucket(h, h[st.head].next, 0, at_pos))].value[1],
              err |-> "none"]

\* T &at(const size_t &pos)
dq_at(st, at_pos) == dq_subscript(st, at_pos)

\* const T &front() const
front(st) ==
    IF st.__size = 0 THEN [out |-> DefaultV, err |-> "container_is_empty"]
    ELSE [out |-> st.heap[st.heap[st.heap[st.heap[st.head].next].head].next].value[1],
          err |-> "none"]

\* const T &back() const
back(st) ==
    IF st.__size = 0 THEN [out |-> DefaultV, err |-> "container_is_empty"]
    ELSE [out |-> st.heap[st.heap[st.heap[st.heap[st.tail].prev].tail].prev].value[1],
          err |-> "none"]


\* new node with value = new T(value): yields the heap with the node in it
dq_new_node(h, value) == (DqNewAddr(h) :> [dq_node EXCEPT !.value = <<value>>]) @@ h

\* void push_back(const T &value)
push_back(st, value) ==
    LET h == st.heap
        \* lines 441-451
        nb == bucket(h).bucket
        nn == DqNewAddr(bucket(h).heap)
        B444(g) == SetNext(SetPrev(g, g[nb].tail, nn), g[nb].head, nn)
        B445(g) == SetNext(SetPrev(g, nn, g[nb].head), nn, g[nb].tail)
        B447(g) == SetNext(g, g[st.tail].prev, nb)
        B448(g) == SetPrev(g, nb, g[st.tail].prev)
        B449(g) == SetNext(g, nb, st.tail)
        B450(g) == SetPrev(g, st.tail, nb)
        B451(g) == SetSize(g, nb, 1)
        \* lines 453-459
        last == h[st.tail].prev
        en == DqNewAddr(h)
        E453(g) == SetSize(g, last, g[last].size + 1)
        E456(g) == SetNext(g, g[g[last].tail].prev, en)
        E457(g) == SetPrev(g, en, g[g[last].tail].prev)
        E458(g) == SetNext(g, en, g[last].tail)
        E459(g) == SetPrev(g, g[last].tail, en)
    IN  IF st.__size + 1 = 1 \/ NEW_PARA(h[h[st.tail].prev].size, st.__size + 1)
        THEN [st EXCEPT !.__size = @ + 1,
                        !.heap = B451(B450(B449(B448(B447(B445(B444(
                                     dq_new_node(bucket(h).heap, value))))))))]
        ELSE [st EXCEPT !.__size = @ + 1,
                        !.heap = E459(E458(E457(E456(dq_new_node(E453(h), value)))))]

\* void push_front(const T &value)
push_front(st, value) ==
    LET h == st.heap
        \* lines 494-504
        nb == bucket(h).bucket
        nn == DqNewAddr(bucket(h).heap)
        B497(g) == SetNext(SetPrev(g, g[nb].tail, nn), g[nb].head, nn)
        B498(g) == SetNext(SetPrev(g, nn, g[nb].head), nn, g[nb].tail)
        B500(g) == SetPrev(g, g[st.head].next, nb)
        B501(g) == SetNext(g, nb, g[st.head].next)
        B502(g) == SetPrev(g, nb, st.head)
        B503(g) == SetNext(g, st.head, nb)
        B504(g) == SetSize(g, nb, 1)
        \* lines 506-512
        frst == h[st.head].next
        en == DqNewAddr(h)
        E506(g) == SetSize(g, frst, g[frst].size + 1)
        E509(g) == SetPrev(g, g[g[frst].head].next, en)
        E510(g) == SetNext(g, en, g[g[frst].head].next)
        E511(g) == SetPrev(g, en, g[frst].head)
        E512(g) == SetNext(g, g[frst].head, en)
    IN  IF st.__size + 1 = 1 \/ NEW_PARA(h[h[st.head].next].size, st.__size + 1)
        THEN [st EXCEPT !.__size = @ + 1,
                        !.heap = B504(B503(B502(B501(B500(B498(B497(
                                     dq_new_node(bucket(h).heap, value))))))))]
        ELSE [st EXCEPT !.__size = @ + 1,
                        !.heap = E512(E511(E510(E509(dq_new_node(E506(h), value)))))]

\* the bucket tar leaves the list of buckets and is freed with its sentinels
\* (its one node, or all its nodes, freed before)
DropBucket(g, tar) ==
    Delete(SetPrev(SetNext(Delete(Delete(g, g[tar].head), g[tar].tail),
                           g[tar].prev, g[tar].next),
                   g[tar].next, g[tar].prev),
           tar)

\* tar_node leaves the list of its bucket and is freed
DropNode(g, tar_node) ==
    Delete(SetPrev(SetNext(g, g[tar_node].prev, g[tar_node].next),
                   g[tar_node].next, g[tar_node].prev),
           tar_node)

\* pop_back that returns quietly when the deque is empty
pop_back_silent(st) ==
    LET h == st.heap
        last == h[st.tail].prev
        Dec(g) == SetSize(g, last, g[last].size - 1)
    IN  IF st.__size = 0 THEN [st |-> st, err |-> "none"]
        ELSE IF h[last].size - 1 = 0
        THEN [st |-> [st EXCEPT !.__size = @ - 1,
                                !.heap = DropBucket(Delete(Dec(h), h[h[last].head].next), last)],
              err |-> "none"]
        ELSE [st |-> [st EXCEPT !.__size = @ - 1,
                                !.heap = DropNode(Dec(h), h[h[last].tail].prev)],
              err |-> "none"]

\* void pop_back()
pop_back(st) ==
    LET h == st.heap
        last == h[st.tail].prev
        Dec(g) == SetSize(g, last, g[last].size - 1)
    IN  IF st.__size = 0 THEN [st |-> st, err |-> "container_is_empty"]
        ELSE IF h[last].size - 1 = 0
        THEN [st |-> [st EXCEPT !.__size = @ - 1,
                                !.heap = DropBucket(Delete(Dec(h), h[h[last].head].next), last)],
              err |-> "none"]
        ELSE [st |-> [st EXCEPT !.__size = @ - 1,
                                !.heap = DropNode(Dec(h), h[h[last].tail].prev)],
              err |-> "none"]

\* void pop_front()
pop_front(st) ==
    LET h == st.heap
        frst == h[st.head].next
        Dec(g) == SetSize(g, frst, g[frst].size - 1)
    IN  IF st.__size = 0 THEN [st |-> st, err |-> "container_is_empty"]
        ELSE IF h[frst].size - 1 = 0
        THEN [st |-> [st EXCEPT !.__size = @ - 1,
                                !.heap = DropBucket(Delete(Dec(h), h[h[frst].head].next), frst)],
              err |-> "none"]
        ELSE [st |-> [st EXCEPT !.__size = @ - 1,
                                !.heap = DropNode(Dec(h), h[h[frst].head].next)],
              err |-> "none"]

\* the loop of lines 383-385: n is a node of bucket b, between head and tail
RECURSIVE InBucket(_, _, _, _)
InBucket(h, b, cur, n) ==
    IF cur = h[b].tail THEN FALSE
    ELSE IF cur = n THEN TRUE
    ELSE InBucket(h, b, h[cur].next, n)

\* insert that returns the bucket of pos without looking for the new node
dq_insert_same_bucket(st, p, value) ==
    LET h == st.heap
        tar_bucket == p.bucket
        pos_node == p.node
        nn == DqNewAddr(h)
        Back(s) == [st |-> s, it |-> dq_pre_decrement(s, dq_end(s)).it, err |-> "none"]
        L373(g) == SetSize(g, tar_bucket, g[tar_bucket].size + 1)
        L377(g) == SetPrev(g, nn, g[pos_node].prev)
        L378(g) == SetNext(g, g[pos_node].prev, nn)
        L379(g) == SetNext(g, nn, pos_node)
        L380(g) == SetPrev(g, pos_node, nn)
        L381(g) == IF SPLIT_PARA(g[tar_bucket].size, st.__size + 1)
                   THEN __split_before(g, tar_bucket, g[tar_bucket].size \div 2)
                   ELSE g
        Found(g) ==
            [st |-> [st EXCEPT !.__size = @ + 1, !.heap = g],
             it |-> dq_iterator(st.this, tar_bucket, nn),
             err |-> "none"]
    IN  IF p.deque # st.this
        THEN [st |-> st, it |-> p, err |-> "invalid_iterator"]
        ELSE IF dq_eq(p, dq_end(st)) THEN Back(push_back(st, value))
        ELSE Found(L381(L380(L379(L378(L377(dq_new_node(L373(h), value)))))))

\* iterator insert(iterator pos, const T &value)
dq_insert(st, p, value) ==
    LET h == st.heap
        tar_bucket == p.bucket
        pos_node == p.node
        nn == DqNewAddr(h)
        \* lines 367-370: push_back(value); return --end();
        Back(s) == [st |-> s, it |-> dq_pre_decrement(s, dq_end(s)).it, err |-> "none"]
        L373(g) == SetSize(g, tar_bucket, g[tar_bucket].size + 1)
        L377(g) == SetPrev(g, nn, g[pos_node].prev)
        L378(g) == SetNext(g, g[pos_node].prev, nn)
        L379(g) == SetNext(g, nn, pos_node)
        L380(g) == SetPrev(g, pos_node, nn)
        L381(g) == IF SPLIT_PARA(g[tar_bucket].size, st.__size + 1)
                   THEN __split_before(g, tar_bucket, g[tar_bucket].size \div 2)
                   ELSE g
        \* lines 383-386
        Found(g) ==
            [st |-> [st EXCEPT !.__size = @ + 1, !.heap = g],
             it |-> IF InBucket(g, tar_bucket, g[g[tar_bucket].head].next, nn)
                    THEN dq_iterator(st.this, tar_bucket, nn)
                    ELSE dq_iterator(st.this, g[tar_bucket].next, nn),
             err |-> "none"]
    IN  IF p.deque # st.this
        THEN [st |-> st, it |-> p, err |-> "invalid_iterator"]
        ELSE IF dq_eq(p, dq_end(st)) THEN Back(push_back(st, value))
        ELSE Found(L381(L380(L379(L378(L377(dq_new_node(L373(h), value)))))))

\* erase that, having merged the bucket of pos into the previous one, still
\* returns the bucket of pos
dq_erase_stale_bucket(st, p) ==
    LET h == st.heap
        n == st.__size - 1
        tar_bucket == p.bucket
        tar_node == p.node
        prev_bucket == h[tar_bucket].prev
        next_bucket == h[tar_bucket].next
        Dec(g) == SetSize(g, tar_bucket, g[tar_bucket].size - 1)
        Shrunk(g, it) == [st |-> [st EXCEPT !.__size = n, !.heap = g], it |-> it, err |-> "none"]
        next_in_next_bucket == h[tar_node].next = h[tar_bucket].tail
        next_node == IF next_in_next_bucket THEN h[h[next_bucket].head].next
                     ELSE h[tar_node].next
        Unlinked == DropNode(Dec(h), tar_node)
    IN  IF p.deque # st.this
        THEN [st |-> st, it |-> p, err |-> "invalid_iterator"]
        ELSE IF dq_star(h, p).err # "none"
        THEN [st |-> st, it |-> p, err |-> dq_star(h, p).err]
        ELSE IF h[tar_bucket].size - 1 = 0
        THEN Shrunk(DropBucket(bucket_clear(Dec(h), tar_bucket), tar_bucket),
                    dq_iterator(st.this, next_bucket, h[h[next_bucket].head].next))
        ELSE IF /\ prev_bucket # st.head
                /\ MERGE_PARA(Unlinked[tar_bucket].size + Unlinked[prev_bucket].size, n)
        THEN Shrunk(__merge_next(Unlinked, prev_bucket),
                    IF next_in_next_bucket
                    THEN dq_iterator(st.this, __merge_next(Unlinked, prev_bucket)[prev_bucket].next,
                                     next_node)
                    ELSE dq_iterator(st.this, tar_bucket, next_node))
        ELSE IF /\ next_bucket # st.tail
                /\ MERGE_PARA(Unlinked[tar_bucket].size + Unlinked[next_bucket].size, n)
        THEN Shrunk(__merge_next(Unlinked, tar_bucket),
                    dq_iterator(st.this, tar_bucket, next_node))
        ELSE Shrunk(Unlinked,
                    IF next_in_next_bucket
                    THEN dq_iterator(st.this, next_bucket, next_node)
                    ELSE dq_iterator(st.this, tar_bucket, next_node))

\* iterator erase(iterator pos)
dq_erase(st, p) ==
    LET h == st.heap
        n == st.__size - 1
        tar_bucket == p.bucket
        tar_node == p.node
        prev_bucket == h[tar_bucket].prev
        next_bucket == h[tar_bucket].next
        Dec(g) == SetSize(g, tar_bucket, g[tar_bucket].size - 1)
        Shrunk(g, it) == [st |-> [st EXCEPT !.__size = n, !.heap = g], it |-> it, err |-> "none"]
        next_in_next_bucket == h[tar_node].next = h[tar_bucket].tail
        next_node == IF next_in_next_bucket THEN h[h[next_bucket].head].next
                     ELSE h[tar_node].next
        Unlinked == DropNode(Dec(h), tar_node)
    IN  IF p.deque # st.this
        THEN [st |-> st, it |-> p, err |-> "invalid_iterator"]
        ELSE IF dq_star(h, p).err # "none"
        THEN [st |-> st, it |-> p, err |-> dq_star(h, p).err]
        ELSE IF h[tar_bucket].size - 1 = 0
        THEN \* lines 402-411
             Shrunk(DropBucket(bucket_clear(Dec(h), tar_bucket), tar_bucket),
                    dq_iterator(st.this, next_bucket, h[h[next_bucket].head].next))
        ELSE IF /\ prev_bucket # st.head
                /\ MERGE_PARA(Unlinked[tar_bucket].size + Unlinked[prev_bucket].size, n)
        THEN \* lines 417-423
             Shrunk(__merge_next(Unlinked, prev_bucket),
                    IF next_in_next_bucket
                    THEN dq_iterator(st.this, __merge_next(Unlinked, prev_bucket)[prev_bucket].next,
                                     next_node)
                    ELSE dq_iterator(st.this, prev_bucket, next_node))
        ELSE IF /\ next_bucket # st.tail
                /\ MERGE_PARA(Unlinked[tar_bucket].size + Unlinked[next_bucket].size, n)
        THEN \* lines 424-426
             Shrunk(__merge_next(Unlinked, tar_bucket),
                    dq_iterator(st.this, tar_bucket, next_node))
        ELSE \* lines 427-432
             Shrunk(Unlinked,
                    IF next_in_next_bucket
                    THEN dq_iterator(st.this, next_bucket, next_node)
                    ELSE dq_iterator(st.this, tar_bucket, next_node))


(***************************************************************************)
(* clear, the copy constructor and operator=.                              *)
(***************************************************************************)
\* __copy_bucket: the loop of lines 142-149, appending to new_bucket
RECURSIVE copy_bucket_loop(_, _, _, _)
copy_bucket_loop(h, old_node, old_tail, new_bucket) ==
    LET nn == DqNewAddr(h)
        L144(g) == (nn :> [dq_node EXCEPT !.value = g[old_node].value]) @@ g
        L145(g) == SetNext(g, g[g[new_bucket].tail].prev, nn)
        L146(g) == SetPrev(g, nn, g[g[new_bucket].tail].prev)
        L147(g) == SetNext(g, nn, g[new_bucket].tail)
        L148(g) == SetPrev(g, g[new_bucket].tail, nn)
    IN  IF old_node = old_tail THEN h
        ELSE copy_bucket_loop(L148(L147(L146(L145(L144(h))))),
                              h[old_node].next, old_tail, new_bucket)

\* __copy_bucket that leaves size as bucket() set it
__copy_bucket_no_size(h, other) ==
    [heap |-> copy_bucket_loop(bucket(h).heap,
                               h[h[other].head].next, h[other].tail, bucket(h).bucket),
     bucket |-> bucket(h).bucket]

\* bucket::__copy_bucket(other): yields the heap and the new bucket
__copy_bucket(h, other) ==
    [heap |-> copy_bucket_loop(SetSize(bucket(h).heap, bucket(h).bucket, h[other].size),
                               h[h[other].head].next, h[other].tail, bucket(h).bucket),
     bucket |-> bucket(h).bucket]

\* deque::size()
dq_size(st) == st.__size

\* deque::clear: the loop of lines 346-353
RECURSIVE dq_clear_loop(_, _, _)
dq_clear_loop(h, cur, tail_bucket) ==
    LET L348(g) == bucket_clear(g, cur)
        L349(g) == Delete(g, g[cur].head)
        L350(g) == Delete(g, g[cur].tail)
        L351(g) == Delete(g, cur)
    IN  IF cur = tail_bucket THEN h
        ELSE dq_clear_loop(L351(L350(L349(L348(h)))), h[cur].next, tail_bucket)

\* deque::clear()
dq_clear(st) ==
    LET L354(g) == SetNext(g, st.head, st.tail)
        L355(g) == SetPrev(g, st.tail, st.head)
    IN  [st EXCEPT !.__size = 0,
                   !.heap = L355(L354(dq_clear_loop(@, @[st.head].next, st.tail)))]

\* the loop of lines 191-197 and of lines 220-226: a copy of each bucket of
\* the other deque is linked before tail
RECURSIVE copy_buckets(_, _, _, _)
copy_buckets(h, old_bucket, other_tail, tail_bucket) ==
    LET Linked4(c) ==
            SetNext(SetPrev(SetPrev(SetNext(c.heap, c.heap[tail_bucket].prev, c.bucket),
                                    c.bucket, c.heap[tail_bucket].prev),
                            tail_bucket, c.bucket),
                    c.bucket, tail_bucket)
    IN  IF old_bucket = other_tail THEN h
        ELSE copy_buckets(Linked4(__copy_bucket(h, old_bucket)),
                          h[old_bucket].next, other_tail, tail_bucket)

\* deque(const deque &other), on the object deque() has just constructed
dq_copy_construct(st, other) ==
    [st EXCEPT !.__size = other.__size,
               !.heap = copy_buckets(@, @[other.head].next, other.tail, st.tail)]

\* operator=(const deque &other); otherId is the address of other
dq_copy_assign(st, other, otherId) ==
    LET Sized(s) == [s EXCEPT !.__size = other.__size]
        Copied(s) ==
            [s EXCEPT !.heap = copy_buckets(@, @[other.head].next, other.tail, s.tail)]
    IN  IF st.this = otherId THEN st
        ELSE Copied(Sized(dq_clear(st)))

(***************************************************************************)
(* The calls on a deque.  ref is the reference list of each deque: the     *)
(* sequence a list would hold after the same calls.  ret records the call: *)
(* key is the index and pos the iterator passed, it the iterator returned; *)
(* script tells a call of a scripted workload from a free one.             *)
(***************************************************************************)
NoIt == dq_iterator(0, NIL, NIL)

DqNoRet ==
    [op |-> "none", map |-> 0, key |-> 0, arg |-> DefaultV, pos |-> NoIt, it |-> NoIt,
     out |-> DefaultV, err |-> "none", script |-> FALSE]

DqRet(op, d, key, arg, p, it, out, err, script) ==
    [op |-> op, map |-> d, key |-> key, arg |-> arg, pos |-> p, it |-> it,
     out |-> out, err |-> err, script |-> script]

InitDq ==
    /\ heap = deque(deque(<<>>, 1).heap, 2).heap
    /\ maps = [d \in Deques |->
                 IF d = 1 THEN DqObject(deque(<<>>, 1))
                 ELSE DqObject(deque(deque(<<>>, 1).heap, 2))]
    /\ ref = [d \in Deques |-> <<>>]
    /\ ret = DqNoRet

DqCommit(st) ==
    /\ heap' = st.heap
    /\ maps' = [maps EXCEPT ![st.this] = DqObject(st)]

\* it advanced i times by operator++
RECURSIVE Advance(_, _, _)
Advance(st, it, i) ==
    IF i = 0 \/ it.node = NIL THEN it ELSE Advance(st, dq_pre_increment(st, it).it, i - 1)

PosAt(d, i) == Advance(DqStore(heap, maps, d), dq_begin(DqStore(heap, maps, d)), i)

\* the reference list with v before index i, and without the element at index i
RefInsert(q, i, v) == SubSeq(q, 1, i) \o <<v>> \o SubSeq(q, i + 1, Len(q))

RefErase(q, i) == SubSeq(q, 1, i) \o SubSeq(q, i + 2, Len(q))

CallPushBack(d, v, script) ==
    /\ DqCommit(push_back(DqStore(heap, maps, d), v))
    /\ ref' = [ref EXCEPT ![d] = Append(@, v)]
    /\ ret' = DqRet("push_back", d, 0, v, NoIt, NoIt, DefaultV, "none", script)

CallPushFront(d, v, script) ==
    /\ DqCommit(push_front(DqStore(heap, maps, d), v))
    /\ ref' = [ref EXCEPT ![d] = <<v>> \o @]
    /\ ret' = DqRet("push_front", d, 0, v, NoIt, NoIt, DefaultV, "none", script)

CallPopBack(d, script) ==
    LET r == pop_back(DqStore(heap, maps, d))
    IN  /\ DqCommit(r.st)
        /\ ref' = [ref EXCEPT ![d] = IF @ = <<>> THEN @ ELSE SubSeq(@, 1, Len(@) - 1)]
        /\ ret' = DqRet("pop_back", d, 0, DefaultV, NoIt, NoIt, DefaultV, r.err, script)

CallPopFront(d, script) ==
    LET r == pop_front(DqStore(heap, maps, d))
    IN  /\ DqCommit(r.st)
        /\ ref' = [ref EXCEPT ![d] = IF @ = <<>> THEN @ ELSE SubSeq(@, 2, Len(@))]
        /\ ret' = DqRet("pop_front", d, 0, DefaultV, NoIt, NoIt, DefaultV, r.err, script)

\* d.insert(d.begin() + i, v), the iterator reached by ++
CallInsert(d, i, v, script) ==
    LET r == dq_insert(DqStore(heap, maps, d), PosAt(d, i), v)
    IN  /\ DqCommit(r.st)
        /\ ref' = [ref EXCEPT ![d] = RefInsert(@, i, v)]
        /\ ret' = DqRet("insert", d, i, v, PosAt(d, i), r.it, DefaultV, r.err, script)

\* d.insert(o.begin(), v) for another deque o
CallInsertForeign(d, o, v, script) ==
    LET r == dq_insert(DqStore(heap, maps, d), dq_begin(DqStore(heap, maps, o)), v)
    IN  /\ d # o
        /\ DqCommit(r.st)
        /\ ref' = ref
        /\ ret' = DqRet("insert", d, 0, v, dq_begin(DqStore(heap, maps, o)), r.it,
                        DefaultV, r.err, script)

\* d.erase(d.begin() + i); i = size() is d.erase(d.end())
CallErase(d, i, script) ==
    LET r == dq_erase(DqStore(heap, maps, d), PosAt(d, i))
    IN  /\ DqCommit(r.st)
        /\ ref' = [ref EXCEPT ![d] = IF i < Len(@) THEN RefErase(@, i) ELSE @]
        /\ ret' = DqRet("erase", d, i, DefaultV, PosAt(d, i), r.it, DefaultV, r.err, script)

\* d.erase(o.begin()) for another deque o
CallEraseForeign(d, o, script) ==
    LET r == dq_erase(DqStore(heap, maps, d), dq_begin(DqStore(heap, maps, o)))
    IN  /\ d # o
        /\ DqCommit(r.st)
        /\ ref' = ref
        /\ ret' = DqRet("erase", d, 0, DefaultV, dq_begin(DqStore(heap, maps, o)), r.it,
                        DefaultV, r.err, script)

\* d.clear()
CallClear(d, script) ==
    /\ DqCommit(dq_clear(DqStore(heap, maps, d)))
    /\ ref' = [ref EXCEPT ![d] = <<>>]
    /\ ret' = DqRet("clear", d, 0, DefaultV, NoIt, NoIt, DefaultV, "none", script)

\* d = o
CallCopyAssign(d, o, script) ==
    /\ DqCommit(dq_copy_assign(DqStore(heap, maps, d), maps[o], o))
    /\ ref' = [ref EXCEPT ![d] = ref[o]]
    /\ ret' = DqRet("copy_assign", d, o, DefaultV, NoIt, NoIt, DefaultV, "none", script)

\* the object at d is as deque() leaves it: deque d(o) constructs it as a copy
CallCopyConstruct(d, o, script) ==
    /\ d # o
    /\ maps[d].__size = 0
    /\ heap[maps[d].head].next = maps[d].tail
    /\ DqCommit(dq_copy_construct(DqStore(heap, maps, d), maps[o]))
    /\ ref' = [ref EXCEPT ![d] = ref[o]]
    /\ ret' = DqRet("copy_construct", d, o, DefaultV, NoIt, NoIt, DefaultV, "none", script)

CallAt(d, i, script) ==
    LET r == dq_at(DqStore(heap, maps, d), i)
    IN  /\ ret' = DqRet("at", d, i, DefaultV, NoIt, NoIt, r.out, r.err, script)
        /\ UNCHANGED <<heap, maps, ref>>

CallSubscript(d, i, script) ==
    LET r == dq_subscript(DqStore(heap, maps, d), i)
    IN  /\ ret' = DqRet("subscript", d, i, DefaultV, NoIt, NoIt, r.out, r.err, script)
        /\ UNCHANGED <<heap, maps, ref>>

CallFront(d, script) ==
    LET r == front(DqStore(heap, maps, d))
    IN  /\ ret' = DqRet("front", d, 0, DefaultV, NoIt, NoIt, r.out, r.err, script)
        /\ UNCHANGED <<heap, maps, ref>>

CallBack(d, script) ==
    LET r == back(DqStore(heap, maps, d))
    IN  /\ ret' = DqRet("back", d, 0, DefaultV, NoIt, NoIt, r.out, r.err, script)
        /\ UNCHANGED <<heap, maps, ref>>

(***************************************************************************)
(* SpecDeque: every call on deque 1 in every order, up to DqMaxSize        *)
(* elements; deque 2 stays empty and lends its begin() as a foreign        *)
(* position.                                                               *)
(***************************************************************************)
DqValues == {1, 2}

DqPushBack ==
    \E v \in DqValues : maps[1].__size < DqMaxSize /\ CallPushBack(1, v, FALSE)

DqPushFront ==
    \E v \in DqValues : maps[1].__size < DqMaxSize /\ CallPushFront(1, v, FALSE)

DqPopBack == CallPopBack(1, FALSE)

DqPopFront == CallPopFront(1, FALSE)

DqInsert ==
    \E i \in 0..maps[1].__size, v \in DqValues :
        maps[1].__size < DqMaxSize /\ CallInsert(1, i, v, FALSE)

DqInsertForeign == \E v \in DqValues : CallInsertForeign(1, 2, v, FALSE)

DqErase == \E i \in 0..maps[1].__size : CallErase(1, i, FALSE)

DqEraseForeign == CallEraseForeign(1, 2, FALSE)

DqAt == \E i \in 0..(maps[1].__size + 1) : CallAt(1, i, FALSE)

DqSubscript == \E i \in 0..(maps[1].__size + 1) : CallSubscript(1, i, FALSE)

DqFront == CallFront(1, FALSE)

DqBack == CallBack(1, FALSE)

DqNext ==
    \/ DqPushBack \/ DqPushFront \/ DqPopBack \/ DqPopFront
    \/ DqInsert \/ DqInsertForeign \/ DqErase \/ DqEraseForeign
    \/ DqAt \/ DqSubscript \/ DqFront \/ DqBack

SpecDeque == InitDq /\ [][DqNext]_vars

(***************************************************************************)
(* SpecDequeBig: deque 1 grows by push_back to DqFill elements, element i  *)
(* being the i-th pushed, and is then thinned by erasing the first element *)
(* of its second or third bucket, at most DqThin times; every state of the *)
(* growth and of the thinning is followed by each call of the interface at *)
(* each position, with the new element 0.  Buckets fill, split on insert   *)
(* and merge on erase.                                                     *)
(***************************************************************************)
\* the start indexes of the buckets of deque d, first bucket first
RECURSIVE BucketStarts(_, _, _, _)
BucketStarts(d, b, start, fuel) ==
    IF b = maps[d].tail \/ fuel = 0 THEN <<>>
    ELSE <<start>> \o BucketStarts(d, heap[b].next, start + heap[b].size, fuel - 1)

Scripted == ret.op = "none" \/ ret.script

BigFill ==
    /\ ret.op \in {"none", "push_back"}
    /\ Scripted
    /\ maps[1].__size < DqFill
    /\ CallPushBack(1, maps[1].__size + 1, TRUE)

BigThin ==
    /\ ret.script
    /\ maps[1].__size = DqFill \/ ret.op = "erase"
    /\ maps[1].__size > DqFill - DqThin
    /\ \E k \in {2, 3} :
          /\ k <= Len(BucketStarts(1, heap[maps[1].head].next, 0, maps[1].__size))
          /\ CallErase(1, BucketStarts(1, heap[maps[1].head].next, 0, maps[1].__size)[k], TRUE)

BigPushBack == Scripted /\ CallPushBack(1, DefaultV, FALSE)

BigPushFront == Scripted /\ CallPushFront(1, DefaultV, FALSE)

BigPopBack == Scripted /\ CallPopBack(1, FALSE)

BigPopFront == Scripted /\ CallPopFront(1, FALSE)

BigInsert == Scripted /\ \E i \in 0..maps[1].__size : CallInsert(1, i, DefaultV, FALSE)

BigInsertForeign == Scripted /\ CallInsertForeign(1, 2, DefaultV, FALSE)

BigErase == Scripted /\ \E i \in 0..maps[1].__size : CallErase(1, i, FALSE)

BigEraseForeign == Scripted /\ CallEraseForeign(1, 2, FALSE)

BigAt == Scripted /\ \E i \in 0..(maps[1].__size + 1) : CallAt(1, i, FALSE)

BigSubscript == Scripted /\ \E i \in 0..(maps[1].__size + 1) : CallSubscript(1, i, FALSE)

BigFront == Scripted /\ CallFront(1, FALSE)

BigBack == Scripted /\ CallBack(1, FALSE)

BigClear == Scripted /\ CallClear(1, FALSE)

BigCopyAssign == Scripted /\ \E d \in Deques, o \in Deques : CallCopyAssign(d, o, FALSE)

BigCopyConstruct == Scripted /\ CallCopyConstruct(2, 1, FALSE)

BigNext ==
    \/ BigFill \/ BigThin
    \/ BigPushBack \/ BigPushFront \/ BigPopBack \/ BigPopFront
    \/ BigInsert \/ BigInsertForeign \/ BigErase \/ BigEraseForeign
    \/ BigAt \/ BigSubscript \/ BigFront \/ BigBack
    \/ BigClear \/ BigCopyAssign \/ BigCopyConstruct

SpecDequeBig == InitDq /\ [][BigNext]_vars

(***************************************************************************)
(* SpecDequeStep: deque 1 grows by push_back to DqStepFill elements, and   *)
(* every state of the growth is followed by it + n, it - n, it += n and    *)
(* it -= n for the iterator it at each index, end() included, and each n   *)
(* of -DqStride..DqStride.  What undefined behaviour does is any of        *)
(* UndefinedOutcomes.                                                      *)
(***************************************************************************)
UndefinedOutcomes == {"crash", "invalid_iterator", "none"}

Outcomes(r) == IF r.err = "undefined" THEN UndefinedOutcomes ELSE {r.err}

\* ret of an iterator operation on the iterator at index i: arg is n
CallStep(op, d, i, n, r) ==
    /\ \E e \in Outcomes(r) :
          ret' = DqRet(op, d, i, n, PosAt(d, i),
                       IF r.err = "undefined" THEN NoIt ELSE r.it, DefaultV, e, FALSE)
    /\ UNCHANGED <<heap, maps, ref>>

Strides == (0 - DqStride)..DqStride

StepFill ==
    /\ ret.op \in {"none", "push_back"}
    /\ maps[1].__size < DqStepFill
    /\ CallPushBack(1, maps[1].__size + 1, TRUE)

StepPlus ==
    /\ Scripted
    /\ \E i \in 0..maps[1].__size, n \in Strides :
          CallStep("plus", 1, i, n, dq_plus(DqStore(heap, maps, 1), PosAt(1, i), n))

StepMinus ==
    /\ Scripted
    /\ \E i \in 0..maps[1].__size, n \in Strides :
          CallStep("minus", 1, i, n, dq_minus(DqStore(heap, maps, 1), PosAt(1, i), n))

StepPlusAssign ==
    /\ Scripted
    /\ \E i \in 0..maps[1].__size, n \in Strides :
          CallStep("plus_assign", 1, i, n,
                   dq_plus_assign(DqStore(heap, maps, 1), PosAt(1, i), n))

StepMinusAssign ==
    /\ Scripted
    /\ \E i \in 0..maps[1].__size, n \in Strides :
          CallStep("minus_assign", 1, i, n,
                   dq_minus_assign(DqStore(heap, maps, 1), PosAt(1, i), n))

StepNext == StepFill \/ StepPlus \/ StepMinus \/ StepPlusAssign \/ StepMinusAssign

SpecDequeStep == InitDq /\ [][StepNext]_vars

(***************************************************************************)
(* What a state of a deque specification holds.                            *)
(***************************************************************************)
\* the positions from it up to end(), as operator++ visits them
RECURSIVE DqWalk(_, _, _)
DqWalk(st, it, fuel) ==
    IF dq_eq(it, dq_end(st)) \/ fuel = 0 THEN <<>>
    ELSE <<it>> \o DqWalk(st, dq_pre_increment(st, it).it, fuel - 1)

\* the positions of deque d from begin() to end()
DqPositions(d) ==
    DqWalk(DqStore(heap, maps, d), dq_begin(DqStore(heap, maps, d)), Cardinality(DOMAIN heap))

\* the elements read from it up to end() by operator* and operator++
RECURSIVE DqRead(_, _, _)
DqRead(st, it, fuel) ==
    IF dq_eq(it, dq_end(st)) \/ fuel = 0 THEN <<>>
    ELSE <<dq_star(st.heap, it).out>> \o DqRead(st, dq_pre_increment(st, it).it, fuel - 1)

\* the elements of deque d read from begin() to end()
DqItems(d) ==
    DqRead(DqStore(heap, maps, d), dq_begin(DqStore(heap, maps, d)), Cardinality(DOMAIN heap))

\* the sizes of the buckets of deque d, first bucket first
RECURSIVE BucketSizes(_, _, _)
BucketSizes(d, b, fuel) ==
    IF b = maps[d].tail \/ fuel = 0 THEN <<>>
    ELSE <<heap[b].size>> \o BucketSizes(d, heap[b].next, fuel - 1)

Buckets(d) == BucketSizes(d, heap[maps[d].head].next, Cardinality(DOMAIN heap))


\* C27: after any sequence of push_back, push_front, pop_back, pop_front,
\* insert and erase, the elements read from begin() to end(), and the
\* element operator[] returns for every index below size(), are those of the
\* reference list given the same calls; bucket splits and merges reorder,
\* drop and duplicate nothing.
C27_ReferenceList ==
    \A d \in Deques :
        /\ DqItems(d) = ref[d]
        /\ maps[d].__size = Len(ref[d])
        /\ \A i \in 0..(Len(ref[d]) - 1) :
              dq_subscript(DqStore(heap, maps, d), i) = [out |-> ref[d][i + 1], err |-> "none"]

\* two buckets thinned to their last elements, 20 and 32, were merged into
\* one and the new element was then inserted between the two
C27_Witness ==
    /\ ret.op = "insert"
    /\ Buckets(1) = <<10, 3, 8>>
    /\ \E i \in 1..(Len(ref[1]) - 2) : SubSeq(ref[1], i, i + 2) = <<20, DefaultV, 32>>


\* C28: at(pos) and operator[](pos) throw index_out_of_bound exactly when
\* pos >= size() and otherwise return the element at index pos counted from
\* the front; neither changes the deque.
C28_Index ==
    [][\A d \in Deques : (ret'.op \in {"at", "subscript"} /\ ret'.map = d) =>
            /\ ret'.err = "index_out_of_bound" <=> ret'.key >= maps[d].__size
            /\ ret'.err \in {"none", "index_out_of_bound"}
            /\ ret'.key < maps[d].__size => ret'.out = DqItems(d)[ret'.key + 1]
            /\ heap' = heap
            /\ maps' = maps]_vars

\* at() has read the first element of the third bucket of a thinned deque,
\* and it is not the element that held this index when the deque was filled
C28_Witness ==
    /\ ret.op = "at"
    /\ ret.err = "none"
    /\ Len(Buckets(1)) = 4
    /\ maps[1].__size < DqFill
    /\ ret.key = Buckets(1)[1] + Buckets(1)[2]
    /\ ret.out = ref[1][ret.key + 1]
    /\ ret.out # ret.key + 1


\* C29: on an empty deque front(), back(), pop_front() and pop_back() throw
\* container_is_empty and leave the deque unchanged; on a non-empty deque
\* front() and back() return the first and the last element.
C29_EmptyThrows ==
    [][\A d \in Deques :
         (ret'.op \in {"front", "back", "pop_front", "pop_back"} /\ ret'.map = d) =>
            IF maps[d].__size = 0
            THEN /\ ret'.err = "container_is_empty"
                 /\ heap' = heap
                 /\ maps' = maps
            ELSE /\ ret'.err = "none"
                 /\ ret'.op = "front" => ret'.out = DqItems(d)[1]
                 /\ ret'.op = "back" => ret'.out = DqItems(d)[Len(DqItems(d))]]_vars

\* pop_back() has thrown on an empty deque, whose two sentinel buckets are
\* linked to each other
C29_Witness ==
    /\ ret.op = "pop_back"
    /\ ret.err = "container_is_empty"
    /\ maps[1].__size = 0
    /\ heap[maps[1].head].next = maps[1].tail
    /\ heap[maps[1].tail].prev = maps[1].head


\* C30: insert(pos, value) returns an iterator to the inserted value: it
\* dereferences to value, its index is the index pos had before the call,
\* and its recorded bucket is the bucket that contains its node, also when
\* the insert split the bucket; when pos belongs to another deque it throws
\* invalid_iterator and leaves the deque unchanged.
C30_InsertReturns ==
    [](\A d \in Deques : (ret.op = "insert" /\ ret.map = d /\ ret.pos.deque = d) =>
            /\ ret.err = "none"
            /\ ret.it.deque = d
            /\ dq_star(heap, ret.it) = [out |-> ret.arg, err |-> "none"]
            /\ DqPositions(d)[ret.key + 1].node = ret.it.node
            /\ InBucket(heap, ret.it.bucket, heap[heap[ret.it.bucket].head].next, ret.it.node)
            /\ DqPositions(d)[ret.key + 1] = ret.it)
    /\ [][\A d \in Deques : (ret'.op = "insert" /\ ret'.map = d) =>
            IF ret'.pos.deque # d
            THEN /\ ret'.err = "invalid_iterator"
                 /\ heap' = heap
                 /\ maps' = maps
            ELSE /\ ret'.pos = PosAt(d, ret'.key)
                 /\ maps'[d].__size = maps[d].__size + 1]_vars

\* the insert at index 7 of nine elements split the bucket in two of five
\* and returned a position in the new bucket
C30_Witness ==
    /\ ret.op = "insert"
    /\ ret.key = 7
    /\ Buckets(1) = <<5, 5>>
    /\ ret.it.bucket = heap[heap[maps[1].head].next].next
    /\ ret.it.bucket # ret.pos.bucket
    /\ ref[1][8] = ret.arg


\* C31: erase(pos) returns an iterator to the element that followed the
\* removed one, end() when the last element was removed, and the recorded
\* bucket of that iterator contains its node whether the bucket was emptied,
\* merged into the previous bucket, merged with the next one or kept; when
\* pos belongs to another deque or is end() it throws invalid_iterator and
\* leaves the deque unchanged.
C31_EraseReturns ==
    [](\A d \in Deques : (ret.op = "erase" /\ ret.map = d /\ ret.err = "none") =>
            /\ ret.it.deque = d
            /\ IF ret.key = maps[d].__size
               THEN ret.it = dq_end(DqStore(heap, maps, d))
               ELSE /\ DqPositions(d)[ret.key + 1] = ret.it
                    /\ dq_star(heap, ret.it) = [out |-> ref[d][ret.key + 1], err |-> "none"]
                    /\ InBucket(heap, ret.it.bucket, heap[heap[ret.it.bucket].head].next,
                                ret.it.node))
    /\ [][\A d \in Deques : (ret'.op = "erase" /\ ret'.map = d) =>
            IF ret'.pos.deque # d \/ ret'.key = maps[d].__size
            THEN /\ ret'.err = "invalid_iterator"
                 /\ heap' = heap
                 /\ maps' = maps
            ELSE /\ ret'.err = "none"
                 /\ ret'.pos = PosAt(d, ret'.key)
                 /\ maps'[d].__size = maps[d].__size - 1]_vars

\* the erase merged the bucket of pos into the previous bucket, so that the
\* bucket of pos is gone, and returned a position in the previous bucket
\* that is not its first
C31_Witness ==
    /\ ret.op = "erase"
    /\ ret.err = "none"
    /\ ret.pos.bucket \notin DOMAIN heap
    /\ ret.it.bucket \in DOMAIN heap
    /\ heap[heap[ret.it.bucket].head].next # ret.it.node
    /\ ret.it.node # heap[ret.it.bucket].tail
    /\ ret.key < maps[1].__size


\* C32: for the iterator it at an index of a deque and an integer n, it + n
\* and it += n throw invalid_iterator when index + n exceeds size(), it - n
\* and it -= n throw invalid_iterator when index - n is below 0, and
\* otherwise the result is the iterator at index + n, respectively
\* index - n; end() is a legal result.
C32_Arithmetic ==
    \A d \in Deques :
        (ret.op \in {"plus", "minus", "plus_assign", "minus_assign"} /\ ret.map = d) =>
            LET target == IF ret.op \in {"plus", "plus_assign"} THEN ret.key + ret.arg
                          ELSE ret.key - ret.arg
            IN  IF target < 0 \/ target > maps[d].__size
                THEN ret.err = "invalid_iterator"
                ELSE ret.err = "none" /\ ret.it = PosAt(d, target)


(***************************************************************************)
(* Readers of a trace and of the tree around a node.                       *)
(***************************************************************************)
\* the entries of trace tr made by function f, in order
Calls(tr, f) == SelectSeq(tr, LAMBDA e : e.f = f)

TwoChildren(h, t) == h[t].child[LEFT] # NIL /\ h[t].child[RIGHT] # NIL

\* the node a walk from n along LEFT children ends at
RECURSIVE LeftMost(_, _)
LeftMost(n, fuel) ==
    IF fuel = 0 \/ heap[n].child[LEFT] = NIL THEN n
    ELSE LeftMost(heap[n].child[LEFT], fuel - 1)

\* the neighbours of x in heap A name x: father or root, children, prev and next
Linked(A, root, x) ==
    /\ IF A[x].father = NIL THEN root = x ELSE A[A[x].father].child[A[x].which] = x
    /\ \A c \in BOOLEAN : A[x].child[c] # NIL => A[A[x].child[c]].father = x
    /\ A[A[x].prev].next = x
    /\ A[A[x].next].prev = x

\* sw is the store swap_node(t, s) leaves when called on heap and maps[1]
Exchanged(sw, t, s) ==
    /\ sw.root = IF maps[1].root = t THEN s ELSE maps[1].root
    /\ sw.heap[s].value = heap[s].value
    /\ sw.heap[t].value = heap[t].value
    /\ sw.heap[s].father = heap[t].father
    /\ sw.heap[s].which = heap[t].which
    /\ sw.heap[s].color = heap[t].color
    /\ sw.heap[s].child[LEFT] = heap[t].child[LEFT]
    /\ sw.heap[s].child[RIGHT] = IF heap[t].child[RIGHT] = s THEN t ELSE heap[t].child[RIGHT]
    /\ sw.heap[s].prev = heap[t].prev
    /\ sw.heap[s].next = t
    /\ sw.heap[t].father = IF heap[s].father = t THEN s ELSE heap[s].father
    /\ sw.heap[t].which = heap[s].which
    /\ sw.heap[t].color = heap[s].color
    /\ sw.heap[t].child[LEFT] = NIL
    /\ sw.heap[t].child[RIGHT] = heap[s].child[RIGHT]
    /\ sw.heap[t].prev = s
    /\ sw.heap[t].next = heap[s].next
    /\ Linked(sw.heap, sw.root, s)
    /\ Linked(sw.heap, sw.root, t)
    /\ \A x \in DOMAIN heap \ {t, s} :
           /\ sw.heap[x].value = heap[x].value
           /\ sw.heap[x].color = heap[x].color

(***************************************************************************)
(* C33: for a node t of the map with two children, t->next is the          *)
(* leftmost node of t's right subtree and has no left child; swap_node(t,  *)
(* t->next) puts the successor at t's place in the tree, with t's colour   *)
(* and t's place in the list, and t at the successor's, where t has no     *)
(* left child; erase calls swap_node exactly then, first, with these two   *)
(* nodes.                                                                  *)
(***************************************************************************)
C33_SwapSuccessor ==
    /\ [](\A t \in TreeNodes(1) \ {NIL} :
              TwoChildren(heap, t) =>
                  /\ heap[t].next = LeftMost(heap[t].child[RIGHT], Fuel)
                  /\ heap[heap[t].next].child[LEFT] = NIL
                  /\ Exchanged(swap_node(Store(heap, maps, 1), t, heap[t].next),
                               t, heap[t].next))
    /\ [][ret'.op = "erase" =>
              IF TwoChildren(heap, ret'.node)
              THEN /\ ret'.trace[1] = Ev("swap_node", ret'.node, heap[ret'.node].next, 0)
                   /\ Len(Calls(ret'.trace, "swap_node")) = 1
              ELSE Calls(ret'.trace, "swap_node") = <<>>]_vars

\* the last erase exchanged its node with a successor and then recoloured or
\* rotated, and the tree has a node whose successor is a grandchild with a child
C33_Witness ==
    /\ ret.op = "erase"
    /\ Calls(ret.trace, "swap_node") # <<>>
    /\ Calls(ret.trace, "rotate") # <<>>
    /\ \E t \in TreeNodes(1) \ {NIL} :
           /\ TwoChildren(heap, t)
           /\ heap[heap[t].next].father # t
           /\ heap[heap[t].next].child[RIGHT] # NIL


\* the three colour and height properties of a red-black tree, of map m
RedBlack(m) ==
    /\ maps[m].root # NIL => heap[maps[m].root].color = BLACK
    /\ \A n \in TreeNodes(m) \ {NIL} :
           heap[n].color = RED =>
               \A w \in BOOLEAN :
                   heap[n].child[w] # NIL => heap[heap[n].child[w]].color = BLACK
    /\ Cardinality(BlackCounts(maps[m].root, Fuel)) = 1

(***************************************************************************)
(* C34: an insert calls rotate at most twice.  Its trace is calls of       *)
(* insert_fix followed by at most two calls of rotate and nothing else;    *)
(* each call of insert_fix after the first is on the grandpa of the call   *)
(* before, whose father and uncle were RED and are BLACK afterwards; and   *)
(* the tree the insert leaves is a red-black tree.                         *)
(***************************************************************************)
C34_OneRotationPair ==
    /\ [](ret.op = "insert" =>
              /\ Len(Calls(ret.trace, "rotate")) <= 2
              /\ ret.trace = Calls(ret.trace, "insert_fix") \o Calls(ret.trace, "rotate")
              /\ ret.flag <=> ret.trace # <<>>
              /\ RedBlack(1))
    /\ [][ret'.op = "insert" =>
              \A i \in 1..Len(Calls(ret'.trace, "insert_fix")) - 1 :
                  LET e == ret'.trace[i]
                      uncle == heap[e.c].child[~heap[e.b].which]
                  IN  /\ ret'.trace[i + 1].a = e.c
                      /\ heap[e.b].color = RED
                      /\ uncle # NIL
                      /\ heap[uncle].color = RED
                      /\ heap'[e.b].color = BLACK
                      /\ heap'[uncle].color = BLACK]_vars

\* the last insert recoloured under a RED uncle, went on at the grandpa and
\* rotated twice there
C34_Witness ==
    /\ ret.op = "insert"
    /\ Len(Calls(ret.trace, "insert_fix")) = 2
    /\ Len(Calls(ret.trace, "rotate")) = 2


(***************************************************************************)
(* C35: the fix-ups follow no null pointer.  No insert and no erase        *)
(* reaches a fault: the grandpa read at line 709, the father and brother   *)
(* read at lines 741 to 771, the nephews written at lines 765 and 772 and  *)
(* the child x->child[!which] read by rotate are all nodes.  The nephew    *)
(* line 765 blackens is RED, and a RED node of the tree has a father.      *)
(***************************************************************************)
C35_NoNullDereference ==
    /\ \A n \in TreeNodes(1) \ {NIL} : heap[n].color = RED => heap[n].father # NIL
    /\ ret.op \in {"insert", "erase"} =>
           /\ Calls(ret.trace, "fault") = <<>>
           /\ \A i \in DOMAIN ret.trace :
                  /\ ret.trace[i].f = "near" => ret.trace[i].a # NIL /\ ret.trace[i].b = Side(TRUE)
                  /\ ret.trace[i].f = "rotate" => ret.trace[i].a # NIL /\ ret.trace[i].b # NIL

\* the last erase rotated at a RED brother, at a RED near nephew and at the father
C35_Witness ==
    /\ ret.op = "erase"
    /\ Len(Calls(ret.trace, "near")) = 1
    /\ Len(Calls(ret.trace, "rotate")) = 3


(***************************************************************************)
(* C36: an insert of an absent key into a non-empty map attaches the new   *)
(* leaf under the node p its descent ends at (the father insert_fix is     *)
(* first called with).  A leaf with a key less than p's, a left child, is  *)
(* the prev of p and its own prev is head or holds a smaller key; a leaf   *)
(* with a greater key, a right child, is the next of p and its own next is *)
(* tail or holds a greater key.  When the insert returns, fix-up included, *)
(* the list is still the nodes of the tree in ascending order of key,      *)
(* linked both ways: the rotations changed no prev or next link.           *)
(***************************************************************************)
C36_LeafSplice ==
    (ret.op = "insert" /\ ret.flag) =>
        LET p == ret.trace[1].b
            leaf == ret.node
        IN  /\ ret.trace[1].f = "insert_fix"
            /\ ret.trace[1].a = leaf
            /\ IF p = NIL
               THEN heap[leaf].prev = maps[1].head /\ heap[leaf].next = maps[1].tail
               ELSE IF Compare(ret.key, KeyOf(p))
               THEN /\ heap[leaf].next = p
                    /\ heap[p].prev = leaf
                    /\ heap[leaf].prev = maps[1].head
                           \/ Compare(KeyOf(heap[leaf].prev), ret.key)
               ELSE /\ Compare(KeyOf(p), ret.key)
                    /\ heap[leaf].prev = p
                    /\ heap[p].next = leaf
                    /\ heap[leaf].next = maps[1].tail
                           \/ Compare(ret.key, KeyOf(heap[leaf].next))
            /\ ListSorted(1)
            /\ Range(Forward(1).seq) = TreeNodes(1)
            /\ KeyOf(leaf) = ret.key

\* the last insert made a right child between two entries and rotated twice
C36_Witness ==
    /\ ret.op = "insert"
    /\ ret.flag
    /\ Len(Calls(ret.trace, "rotate")) = 2
    /\ heap[ret.node].prev = ret.trace[1].b
    /\ heap[ret.node].next # maps[1].tail


(***************************************************************************)
(* C37: in every state, for each map: root is null exactly when size is 0  *)
(* and a root has no father; every live node other than a root has a      *)
(* live father whose child on the node's side is the node; every child of  *)
(* a live node is a live node whose father is that node and whose side is  *)
(* the side it hangs on; no father and no child of a live node is a        *)
(* sentinel.                                                               *)
(***************************************************************************)
C37_TreeLinks ==
    /\ \A m \in Maps :
           /\ maps[m].root = NIL <=> maps[m].size = 0
           /\ maps[m].root # NIL => maps[m].root \in Live /\ heap[maps[m].root].father = NIL
    /\ \A n \in Live :
           /\ n \notin {maps[m].root : m \in Maps} =>
                  /\ heap[n].father \in Live
                  /\ heap[heap[n].father].child[heap[n].which] = n
           /\ \A w \in BOOLEAN :
                  heap[n].child[w] # NIL =>
                      /\ heap[n].child[w] \in Live
                      /\ heap[heap[n].child[w]].father = n
                      /\ heap[heap[n].child[w]].which = w
    /\ \A n \in Live :
           heap[n].father \notin Sentinels /\ \A w \in BOOLEAN : heap[n].child[w] \notin Sentinels

\* an erase has left map 1 with a root that has grandchildren on both sides,
\* next to a map 2 that is empty
C37_Witness ==
    /\ ret.op = "erase"
    /\ maps[2].size = 0
    /\ maps[1].root # NIL
    /\ \A w \in BOOLEAN :
           /\ heap[maps[1].root].child[w] # NIL
           /\ \E v \in BOOLEAN : heap[heap[maps[1].root].child[w]].child[v] # NIL


\* the nodes the calls tr were made on
Targets(tr) == {tr[i].a : i \in DOMAIN tr}

(***************************************************************************)
(* C38: the loops and recursions of the map end.  From every state, find   *)
(* of each key returns the node that holds it or end(), and the descent of *)
(* insert ends at the node that holds the key or at a node of the tree     *)
(* with no child on the side the key belongs.  In the calls of insert_fix  *)
(* an insert makes, each call after the first is on the grandpa of the     *)
(* call before, and in the calls of erase_fix an erase makes, each call    *)
(* after the first is on the father of the call before; no node is visited *)
(* twice and a call on a node without father is the last.  A clear leaves  *)
(* no node but the sentinels, head linked to tail.                         *)
(***************************************************************************)
C38_RunsToCompletion ==
    /\ \A k \in FixKeys :
           LET Found(n) ==
                   IF n = maps[1].tail THEN \A x \in Live : KeyOf(x) # k
                   ELSE n \in Live /\ KeyOf(n) = k
               Ended(d) ==
                   /\ d.cur_node \in Live
                   /\ d.found <=> KeyOf(d.cur_node) = k
                   /\ ~d.found => heap[d.cur_node].child[d.which] = NIL
                   /\ d.which <=> Compare(KeyOf(d.cur_node), k)
           IN  /\ Found(find(Store(heap, maps, 1), k).node)
               /\ maps[1].root # NIL => Ended(insert_descend(heap, maps[1].root, k))
    /\ ret.op = "insert" =>
           LET fix == Calls(ret.trace, "insert_fix")
           IN  /\ Cardinality(Targets(fix)) = Len(fix)
               /\ Targets(fix) \subseteq Live
               /\ \A i \in 1..Len(fix) - 1 :
                      /\ fix[i].b # NIL
                      /\ fix[i].c # NIL
                      /\ fix[i + 1].a = fix[i].c
                      /\ fix[i + 1].b # fix[i].b
    /\ ret.op = "erase" =>
           LET fix == Calls(ret.trace, "erase_fix")
           IN  /\ Len(fix) >= 1
               /\ fix[1] = Ev("erase_fix", ret.node, fix[1].b, Side(FALSE))
               /\ Cardinality(Targets(fix)) = Len(fix)
               /\ \A i \in 1..Len(fix) - 1 :
                      /\ fix[i].b # NIL
                      /\ fix[i + 1].a = fix[i].b
                      /\ fix[i + 1].c = Side(TRUE)
    /\ ret.op = "clear" =>
           /\ Live = {}
           /\ maps[1].size = 0
           /\ heap[maps[1].head].next = maps[1].tail
           /\ heap[maps[1].tail].prev = maps[1].head

\* the last erase called erase_fix on its node and then on the father, the
\* root, and the map still holds keys that a find and a descent must pass
C38_Witness ==
    /\ ret.op = "erase"
    /\ Len(Calls(ret.trace, "erase_fix")) = 2
    /\ Calls(ret.trace, "erase_fix")[2].b = NIL
    /\ maps[1].size >= 2


\* dist of the subtree at n, an absent child counting as -1
DistOf(n) == IF n = NIL THEN -1 ELSE heap[n].dist

(***************************************************************************)
(* C39: in every state, for every node of a queue, the dist of its left    *)
(* child is at least the dist of its right child, an absent child counting *)
(* as -1, and its own dist is the dist of its right child plus one.        *)
(***************************************************************************)
C39_Leftist ==
    \A q \in Queues :
        \A n \in Range(PqNodes(q)) :
            /\ DistOf(heap[n].left_child) >= DistOf(heap[n].right_child)
            /\ heap[n].dist = DistOf(heap[n].right_child) + 1


\* the buckets of deque d between its sentinel buckets, first bucket first
RECURSIVE BucketList(_, _, _)
BucketList(d, b, fuel) ==
    IF b = maps[d].tail \/ fuel = 0 \/ b \notin DOMAIN heap THEN <<>>
    ELSE <<b>> \o BucketList(d, heap[b].next, fuel - 1)

\* the number of nodes from n up to the sentinel node t, -1 when t is not reached
RECURSIVE NodeCount(_, _, _)
NodeCount(n, t, fuel) ==
    IF n = t THEN 0
    ELSE IF fuel = 0 \/ n \notin DOMAIN heap THEN -1
    ELSE LET rest == NodeCount(heap[n].next, t, fuel - 1)
         IN  IF rest = -1 THEN -1 ELSE rest + 1

RECURSIVE SumSeq(_)
SumSeq(q) == IF q = <<>> THEN 0 ELSE Head(q) + SumSeq(Tail(q))

(***************************************************************************)
(* C40: in every state, for each deque: size() is the sum of the size      *)
(* fields of the buckets between the sentinel buckets; the size field of   *)
(* each of these buckets is the number of nodes linked between its head    *)
(* and its tail, and is not 0; the two sentinel buckets hold no node and   *)
(* size 0.                                                                 *)
(***************************************************************************)
C40_BucketBookkeeping ==
    \A d \in Deques :
        LET bs == BucketList(d, heap[maps[d].head].next, Cardinality(DOMAIN heap))
        IN  /\ dq_size(DqStore(heap, maps, d)) = SumSeq([i \in DOMAIN bs |-> heap[bs[i]].size])
            /\ \A i \in DOMAIN bs :
                   /\ heap[bs[i]].size # 0
                   /\ heap[bs[i]].size =
                          NodeCount(heap[heap[bs[i]].head].next, heap[bs[i]].tail,
                                    Cardinality(DOMAIN heap))
            /\ \A e \in {maps[d].head, maps[d].tail} :
                   /\ heap[e].size = 0
                   /\ heap[heap[e].head].next = heap[e].tail

\* a deque of three buckets or more has been copied into deque 2 by operator=
C40_Witness ==
    /\ ret.op = "copy_assign"
    /\ ret.map = 2
    /\ Len(Buckets(2)) >= 3
    /\ Buckets(2) = Buckets(1)
    /\ \E i \in DOMAIN Buckets(2) : Buckets(2)[i] # Buckets(2)[1]

====
